---- MODULE Spec2Model ----
(***************************************************************************)
(* A model of the resume-avatar bot (rumit2000/CVBotDevelop):              *)
(*   - rag.py: the persisted embedding index, ingest and retrieve;         *)
(*   - bot.py / webhook.py / assistant_runner.py: answer_via_assistant,    *)
(*     the tool-calling orchestrator that polls a hosted assistant run.    *)
(* SpecRag runs the index operations, SpecAssistant runs one orchestrator  *)
(* call (any of the three copies) over an index that ingest can produce.   *)
(***************************************************************************)
EXTENDS Integers, Sequences, FiniteSets, TLC

VARIABLES
    \* ---- rag.py: the three index files (EMBEDDINGS_FILE, CHUNKS_FILE, META_FILE)
    embFile,        \* [exists, data]: data is the sequence of stored vectors
    chunksFile,     \* [exists, data]: data is the sequence of Chunk records
    metaFile,       \* [exists, data]: data is the meta record (size, dim)
    \* ---- rag.py: the last call of ingest / retrieve and what it returned
    call,           \* [op, sources, q, k, embedOK, failAt]: the operation, its
                    \* arguments and the behaviour of the embedding provider
    ret,            \* [status, hits, stats]: "ok" / "raised" / "none" and the value
    embedCalls,     \* how many times the last operation called client.embeddings.create
    \* ---- answer_via_assistant: one call of one copy
    copy,           \* "bot" | "webhook" | "runner" (assistant_runner.py)
    pc,             \* position in the coroutine
    current_company,\* result of extract_current_company_from_local_index
    run_status,     \* run.status as last observed by runs.retrieve
    tool_calls,     \* run.required_action.submit_tool_outputs.tool_calls
    callIdx,        \* how many of tool_calls the for loop has gone through
    outputs,        \* the outputs list built for the current requires_action
    result,         \* the value returned to the caller
    listing,        \* msgs.data as returned by messages.list ([ok, data])
    nReq,           \* polls that observed "requires_action"
    nSubmit,        \* calls of runs.submit_tool_outputs
    nList,          \* calls of messages.list
    \* ---- rag.py: a build whose _save_index is under way, and a second process
    writer,         \* [pc, index]: the next write of _save_index, the index it writes
    loaded,         \* what the last _load_index of the second process returned
    \* ---- the chunkers: rag._split_into_chunks and ingestion.chunk_text
    chunkCall,      \* [op, text, size, overlap]: the last call and its arguments
    chunkRet,       \* the list of chunk texts it returned
    \* ---- the non-answer classifier: is_empty_message / is_empty_faq_answer
    clsCall,        \* [op, copy, text]: the copy that was called and its argument
    verdict,        \* the boolean it returned
    \* ---- the serving process (bot.py or webhook.py) and its cache files
    server,         \* "bot" | "webhook": the module that serves
    aboutFile,      \* data/about_cache.txt: [exists, data]
    faqFile,        \* data/faq_cache.json: [exists, valid, shape, topics]
    indexFile,      \* data/index.npz with data/index_meta.json, the files
                    \* ingestion.main writes: [exists, embeddings, chunks]
    ABOUT_TEXT,     \* the global of that name (None or a text)
    ACTIVE_FAQ_TOPICS, \* the global of that name: a list of <<key, label, full>>
    FAQ_CACHE,      \* the global of that name: a function from keys to replies
    handled,        \* [op, status, fail, from_user]: the last handler that
                    \* ran, how it ended, where ingestion.main raised if it
                    \* did, and for /reindex who sent the message
    lastBuild,      \* [by, inputs, ran]: the module whose cache builder was
                    \* called last, what retrieval and the completions gave it
                    \* for each topic, whether it went through the catalog
    \* ---- the web tools: _web_search_impl and _web_fetch_impl
    toolCall,       \* [op, copy, ...]: the tool that ran, its arguments, the
                    \* company extracted before, and what the search engine
                    \* or the web server gave it
    toolRet,        \* what the tool returned: [results, text], and the query
                    \* the search ran with
    \* ---- the free-text handler: handle_free_text / handle_text
    asked,          \* [pc, copy, question, links]: the handler's position, the
                    \* module it belongs to, message.text, the fallback's links
    sent,           \* the messages passed to message.answer, in order
    \* ---- two text messages handled side by side by one process
    sessions        \* for each chat, [pc, text, relevant, result, found, reply]:
                    \* the handler's position, message.text, what the
                    \* providers gave this handler, and the message it sent

ragVars  == <<embFile, chunksFile, metaFile, call, ret, embedCalls>>
asstVars == <<copy, pc, current_company, run_status, tool_calls, callIdx, outputs,
              result, listing, nReq, nSubmit, nList>>
rebuildVars == <<writer, loaded>>
\* the variables outside the index files and the orchestrator
chunkerVars == <<chunkCall, chunkRet>>
\* the variables of the pure functions and of the serving globals
clsVars   == <<clsCall, verdict>>
servVars  == <<server, aboutFile, faqFile, indexFile, ABOUT_TEXT,
               ACTIVE_FAQ_TOPICS, FAQ_CACHE, handled, lastBuild>>
toolVars  == <<toolCall, toolRet>>
textVars  == <<asked, sent, sessions>>
sideVars  == <<chunkerVars, clsVars, servVars, toolVars, textVars>>
otherVars == <<rebuildVars, sideVars>>
\* what the actions of one part leave alone
besidesChunker == <<ragVars, asstVars, rebuildVars, clsVars, servVars, toolVars,
                    textVars>>
besidesCls     == <<ragVars, asstVars, rebuildVars, chunkerVars, servVars, toolVars,
                    textVars>>
besidesServ    == <<ragVars, asstVars, rebuildVars, chunkerVars, clsVars, toolVars,
                    textVars>>
besidesTools   == <<ragVars, asstVars, rebuildVars, chunkerVars, clsVars, servVars,
                    textVars>>
besidesText    == <<ragVars, rebuildVars, chunkerVars, clsVars, servVars, toolVars>>
vars     == <<embFile, chunksFile, metaFile, call, ret, embedCalls,
              copy, pc, current_company, run_status, tool_calls, callIdx, outputs,
              result, listing, nReq, nSubmit, nList,
              writer, loaded, chunkCall, chunkRet, clsCall, verdict,
              server, aboutFile, faqFile, indexFile, ABOUT_TEXT, ACTIVE_FAQ_TOPICS,
              FAQ_CACHE, handled, lastBuild, toolCall, toolRet, asked, sent,
              sessions>>

(***************************************************************************)
(* Bounds of the model.                                                    *)
(***************************************************************************)
MaxTopK    == 7     \* largest top_k passed to retrieve
MaxCalls   == 2     \* most pending tool calls in one requires_action
MaxReq     == 2     \* most requires_action observations in one run
MaxMsgs    == 2     \* most messages in one listing
MaxFailAt  == 3     \* the latest embedding call of one ingest that may fail
MaxTextLen == 5     \* longest text handed to _split_into_chunks
MaxLongLen == 7     \* longest such text without spaces (letters, stops, newlines)
MaxTokLen  == 4     \* longest text handed to chunk_text
MaxFound   == 2     \* most results the search engine yields
MaxResultsArg == 2  \* largest max_results handed to web_search
MaxCharsArg == 2    \* largest max_chars handed to web_fetch
MaxPhrases == 2     \* most phrases in one text handed to the classifier
MaxChars   == 4     \* largest max_chars of _split_into_chunks
MaxOverlap == 3     \* largest overlap of _split_into_chunks

DefaultTopK == 6    \* retrieve(query, *, top_k=6)

None == "None"

Range(s) == {s[i] : i \in 1..Len(s)}

\* all sequences over S of length 0..n
RECURSIVE SeqsUpTo(_, _)
SeqsUpTo(S, n) ==
    IF n = 0 THEN {<<>>}
    ELSE LET shorter == SeqsUpTo(S, n - 1)
         IN  shorter \cup {Append(s, x) : s \in {t \in shorter : Len(t) = n - 1}, x \in S}

(***************************************************************************)
(* rag.py -- documents, chunks, the embedding provider                     *)
(***************************************************************************)
\* A chunk text is a small number; the embedding provider maps it to a vector
\* (deterministic for a fixed input). Vectors have Dim == 2 integer coordinates.
Texts == 0..8
Vecs  == {<<x, y>> : x \in -1..1, y \in -1..1}

EmbedOf(t) == <<(t % 3) - 1, (t \div 3) - 1>>

\* The source documents ingest can be pointed at. pages[p] is the sequence of
\* pieces _split_into_chunks yields for page p (a text file has one "page").
DocMissing == [path |-> "data/missing.pdf", name |-> "missing.pdf", exists |-> FALSE,
               suffix |-> ".pdf", readable |-> TRUE, pages |-> <<>>]
DocEmpty   == [path |-> "data/empty.txt", name |-> "empty.txt", exists |-> TRUE,
               suffix |-> ".txt", readable |-> TRUE, pages |-> << <<>> >>]
DocPhoto   == [path |-> "data/photo.png", name |-> "photo.png", exists |-> TRUE,
               suffix |-> ".png", readable |-> TRUE, pages |-> <<>>]
DocBroken  == [path |-> "data/broken.pdf", name |-> "broken.pdf", exists |-> TRUE,
               suffix |-> ".pdf", readable |-> FALSE, pages |-> <<>>]
DocCV      == [path |-> "data/cv.pdf", name |-> "cv.pdf", exists |-> TRUE,
               suffix |-> ".pdf", readable |-> TRUE, pages |-> << <<0, 4>>, <<8>> >>]
DocNotes   == [path |-> "data/notes.txt", name |-> "notes.txt", exists |-> TRUE,
               suffix |-> ".txt", readable |-> TRUE, pages |-> << <<5, 7, 2>> >>]
\* a file of the same name as DocCV in another directory
DocCVOld   == [path |-> "archive/cv.pdf", name |-> "cv.pdf", exists |-> TRUE,
               suffix |-> ".pdf", readable |-> TRUE, pages |-> << <<6>> >>]

\* The lists of sources ingest is called with.
SourceLists ==
    { <<>>, <<DocMissing>>, <<DocEmpty>>, <<DocPhoto>>, <<DocBroken>>,
      <<DocMissing, DocEmpty>>, <<DocEmpty, DocPhoto>>,
      <<DocCV>>, <<DocNotes>>, <<DocCV, DocNotes>>, <<DocNotes, DocCV>>,
      <<DocMissing, DocCV>>, <<DocCV, DocBroken>>, <<DocEmpty, DocNotes>>,
      <<DocCV, DocCVOld>> }

\* Chunk(id, source, page, text); page 0 stands for page=None (text files).
Chunk(id, source, page, text) ==
    [id |-> id, source |-> source, page |-> page, text |-> text]

\* rag.py 210-213 / 216-218: the chunks of one page, ids numbered from 1
PageChunks(doc, p) ==
    LET pieces == doc.pages[p]
        page   == IF doc.suffix = ".pdf" THEN p ELSE 0
    IN  [i \in 1..Len(pieces) |->
            Chunk(<<doc.name, page, i>>, doc.path, page, pieces[i])]

RECURSIVE DocChunks(_, _)
DocChunks(doc, p) ==
    IF p > Len(doc.pages) THEN <<>>
    ELSE PageChunks(doc, p) \o DocChunks(doc, p + 1)

\* rag.py 202-220: the loop over the sources. A missing source and an
\* unsupported suffix are skipped with a warning; a PDF that cannot be read
\* raises out of _extract_text_from_pdf.
RECURSIVE CollectChunks(_, _)
CollectChunks(sources, i) ==
    IF i > Len(sources) THEN [raised |-> FALSE, chunks |-> <<>>]
    ELSE LET doc  == sources[i]
             rest == CollectChunks(sources, i + 1)
         IN  IF ~doc.exists THEN rest
             ELSE IF doc.suffix \in {".pdf", ".txt", ".md"}
                  THEN IF ~doc.readable
                       THEN [raised |-> TRUE, chunks |-> <<>>]
                       ELSE [raised |-> rest.raised,
                             chunks |-> IF rest.raised THEN <<>>
                                        ELSE DocChunks(doc, 1) \o rest.chunks]
                  ELSE rest

File(data)  == [exists |-> TRUE, data |-> data]
NoFile      == [exists |-> FALSE, data |-> <<>>]
NoMeta      == [exists |-> FALSE, data |-> [size |-> 0, dim |-> 0]]
Index(e, c, m) == [emb |-> e, chunks |-> c, meta |-> m]

\* rag.py 157-164
_save_index(embs, chunks, meta) ==
    Index(File(embs), File(chunks), File(meta))

\* rag.py 171: _batched(texts, 128). The batch size is scaled down so that the
\* documents above need up to three batches.
BatchSize == 2

\* rag.py 121-129
RECURSIVE _batched(_, _)
_batched(iterable, batch_size) ==
    IF iterable = <<>> THEN <<>>
    ELSE IF Len(iterable) <= batch_size THEN <<iterable>>
    ELSE <<SubSeq(iterable, 1, batch_size)>>
            \o _batched(SubSeq(iterable, batch_size + 1, Len(iterable)), batch_size)

\* rag.py 172-174: one embeddings.create call, resp.data in the order of the input
EmbedBatch(batch) == [i \in 1..Len(batch) |-> EmbedOf(batch[i])]

\* rag.py 175: np.vstack(out_vecs)
RECURSIVE VStack(_)
VStack(out_vecs) ==
    IF out_vecs = <<>> THEN <<>> ELSE Head(out_vecs) \o VStack(Tail(out_vecs))

\* rag.py 167-176: one embeddings.create call per batch
_embed_texts(texts) ==
    LET batches == _batched(texts, BatchSize)
    IN  VStack([b \in 1..Len(batches) |-> EmbedBatch(batches[b])])

\* the texts ingest hands to _embed_texts (rag.py 232)
TextsOf(all_chunks) == [i \in 1..Len(all_chunks) |-> all_chunks[i].text]

\* ingest writing the index as the batches come back: a provider failure on a
\* later batch leaves the vectors of the earlier batches next to all the chunks
ingest_SavesAsItGoes(sources, failAt, old) ==
    LET got == CollectChunks(sources, 1)
        all_chunks == got.chunks
        batches == _batched(TextsOf(all_chunks), BatchSize)
    IN  IF got.raised
        THEN [status |-> "raised", stats |-> [chunks |-> 0, dim |-> 0],
              index |-> old, embeds |-> 0]
        ELSE IF all_chunks = <<>>
        THEN [status |-> "ok", stats |-> [chunks |-> 0, dim |-> 0],
              index |-> _save_index(<<>>, <<>>, [size |-> 0, dim |-> 0]),
              embeds |-> 0]
        ELSE IF failAt \in 1..Len(batches)
        THEN [status |-> "raised", stats |-> [chunks |-> 0, dim |-> 0],
              index |-> _save_index(
                  VStack([b \in 1..(failAt - 1) |-> EmbedBatch(batches[b])]),
                  all_chunks, [size |-> Len(all_chunks), dim |-> 2]),
              embeds |-> failAt]
        ELSE LET embs == _embed_texts(TextsOf(all_chunks))
                 meta == [size |-> Len(embs), dim |-> 2]
             IN  [status |-> "ok", stats |-> [chunks |-> meta.size, dim |-> meta.dim],
                  index |-> _save_index(embs, all_chunks, meta),
                  embeds |-> Len(batches)]

\* ingest without the "if not all_chunks" branch: np.vstack of no batches raises
ingest_NoEmptyBranch(sources, failAt, old) ==
    LET got == CollectChunks(sources, 1)
        all_chunks == got.chunks
        batches == _batched(TextsOf(all_chunks), BatchSize)
    IN  IF got.raised \/ all_chunks = <<>> \/ failAt \in 1..Len(batches)
        THEN [status |-> "raised", stats |-> [chunks |-> 0, dim |-> 0],
              index |-> old,
              embeds |-> IF got.raised THEN 0
                         ELSE IF all_chunks = <<>> THEN 1 ELSE failAt]
        ELSE LET embs == _embed_texts(TextsOf(all_chunks))
                 meta == [size |-> Len(embs), dim |-> 2]
             IN  [status |-> "ok", stats |-> [chunks |-> meta.size, dim |-> meta.dim],
                  index |-> _save_index(embs, all_chunks, meta),
                  embeds |-> Len(batches)]

\* rag.py 183-243. old is the index on disk; failAt = n > 0 says that the n-th
\* call of the embedding provider fails (0: the provider answers every call). The
\* result carries the index left on disk and the number of provider calls made.
ingest(sources, failAt, old) ==
    LET got == CollectChunks(sources, 1)
        all_chunks == got.chunks
        batches == _batched(TextsOf(all_chunks), BatchSize)
    IN  IF got.raised
        THEN [status |-> "raised", stats |-> [chunks |-> 0, dim |-> 0],
              index |-> old, embeds |-> 0]
        ELSE IF all_chunks = <<>>
        THEN [status |-> "ok", stats |-> [chunks |-> 0, dim |-> 0],
              index |-> _save_index(<<>>, <<>>, [size |-> 0, dim |-> 0]),
              embeds |-> 0]
        ELSE IF failAt \in 1..Len(batches)
        THEN [status |-> "raised", stats |-> [chunks |-> 0, dim |-> 0],
              index |-> old, embeds |-> failAt]
        ELSE LET embs == _embed_texts(TextsOf(all_chunks))
                 meta == [size |-> Len(embs), dim |-> 2]
             IN  [status |-> "ok", stats |-> [chunks |-> meta.size, dim |-> meta.dim],
                  index |-> _save_index(embs, all_chunks, meta),
                  embeds |-> Len(batches)]

\* rag.py 142-154 (the meta {} of a missing index is written as NoMeta.data)
_load_index(idx) ==
    IF ~(idx.emb.exists /\ idx.chunks.exists /\ idx.meta.exists)
    THEN [embs |-> <<>>, chunks |-> <<>>, meta |-> NoMeta.data]
    ELSE [embs |-> idx.emb.data, chunks |-> idx.chunks.data, meta |-> idx.meta.data]

\* rag.py 132-134
Dot(a, b) == a[1] * b[1] + a[2] * b[2]
_cosine_sim(q, embs) == [i \in 1..Len(embs) |-> Dot(q, embs[i])]

\* all orderings of the finite set S
RECURSIVE Perms(_)
Perms(S) ==
    IF S = {} THEN {<<>>}
    ELSE UNION {{<<x>> \o p : p \in Perms(S \ {x})} : x \in S}

\* the members of the finite set of numbers S in ascending order
RECURSIVE Ascending(_)
Ascending(S) ==
    IF S = {} THEN <<>>
    ELSE LET m == CHOOSE x \in S : \A y \in S : x <= y
         IN  <<m>> \o Ascending(S \ {m})

\* ArgPartitionTail with the sign of kth lost: the top_k lowest scores
ArgPartitionHead(sims, top_k) ==
    LET N == Len(sims)
        bottoms == {S \in SUBSET (1..N) :
                      /\ Cardinality(S) = top_k
                      /\ \A i \in S, j \in (1..N) \ S : sims[j] >= sims[i]}
    IN  {Ascending(S) : S \in bottoms}

\* rag.py 260: np.argpartition(sims, -top_k)[-top_k:] -- any top_k positions none
\* of which scores below a position left out. The order introselect leaves them
\* in is lost in the argsort that follows, so each choice is listed once.
ArgPartitionTail(sims, top_k) ==
    LET N == Len(sims)
        tops == {S \in SUBSET (1..N) :
                    /\ Cardinality(S) = top_k
                    /\ \A i \in S, j \in (1..N) \ S : sims[j] <= sims[i]}
    IN  {Ascending(S) : S \in tops}

\* rag.py 262: idx[np.argsort(-sims[idx])] -- idx reordered by descending score
\* (the sort is not stable: equal scores come out in any order)
ArgSortDesc(sims, idx) ==
    {p \in Perms(Range(idx)) :
        \A a \in 1..Len(p), b \in 1..Len(p) : a < b => sims[p[a]] >= sims[p[b]]}

Hit(score, ch) ==
    [score |-> score, id |-> ch.id, source |-> ch.source, page |-> ch.page, text |-> ch.text]

\* rag.py 246-273: the set of results retrieve can produce for query vector q
\* (what the embedding provider returns for the query) and top_k on index idx.
retrieve(q, top_k, embedOK, idx) ==
    LET ld == _load_index(idx)
        embs == ld.embs
        chunks == ld.chunks
    IN  IF Len(embs) = 0
        THEN {[status |-> "ok", hits |-> <<>>, embeds |-> 0]}
        ELSE IF ~embedOK
        THEN {[status |-> "raised", hits |-> <<>>, embeds |-> 1]}
        ELSE IF top_k > Len(embs)
        THEN {[status |-> "raised", hits |-> <<>>, embeds |-> 1]}   \* ValueError: kth out of bounds
        ELSE LET sims == _cosine_sim(q, embs)
             IN  {[status |-> "ok",
                   hits |-> [n \in 1..Len(s) |-> Hit(sims[s[n]], chunks[s[n]])],
                   embeds |-> 1] :
                     s \in UNION {ArgSortDesc(sims, idx0) : idx0 \in ArgPartitionTail(sims, top_k)}}

(***************************************************************************)
(* rag.py -- the operations                                                *)
(***************************************************************************)
NoCall == [op |-> "none", sources |-> <<>>, q |-> <<0, 0>>, k |-> 0, embedOK |-> TRUE,
           failAt |-> 0]
NoRet  == [status |-> "none", hits |-> <<>>, stats |-> [chunks |-> 0, dim |-> 0]]
OnDisk == Index(embFile, chunksFile, metaFile)
AbsentIndex == Index(NoFile, NoFile, NoMeta)

Ingest ==
    /\ pc = "idle" /\ call.op = "none"
    /\ \E sources \in SourceLists, failAt \in 0..MaxFailAt :
         LET r == ingest(sources, failAt, OnDisk)
         IN  /\ embFile' = r.index.emb
             /\ chunksFile' = r.index.chunks
             /\ metaFile' = r.index.meta
             /\ call' = [op |-> "ingest", sources |-> sources, q |-> <<0, 0>>,
                         k |-> 0, embedOK |-> failAt = 0, failAt |-> failAt]
             /\ ret' = [status |-> r.status, hits |-> <<>>, stats |-> r.stats]
             /\ embedCalls' = r.embeds
    /\ UNCHANGED <<asstVars, otherVars>>

Retrieve ==
    /\ pc = "idle" /\ call.op = "none"
    /\ \E q \in Vecs, top_k \in 1..MaxTopK, embedOK \in BOOLEAN :
         \E r \in retrieve(q, top_k, embedOK, OnDisk) :
             /\ call' = [op |-> "retrieve", sources |-> <<>>, q |-> q,
                         k |-> top_k, embedOK |-> embedOK,
                         failAt |-> IF embedOK THEN 0 ELSE 1]
             /\ ret' = [status |-> r.status, hits |-> r.hits, stats |-> NoRet.stats]
             /\ embedCalls' = r.embeds
    /\ UNCHANGED <<embFile, chunksFile, metaFile>>
    /\ UNCHANGED <<asstVars, otherVars>>

\* the caller takes the value (or the exception) of the last operation
Return ==
    /\ call.op # "none"
    /\ call' = NoCall /\ ret' = NoRet /\ embedCalls' = 0
    /\ UNCHANGED <<embFile, chunksFile, metaFile>>
    /\ UNCHANGED <<asstVars, otherVars>>

NoResult  == [some |-> FALSE, text |-> <<>>]
NoListing == [ok |-> FALSE, data |-> <<>>]

AsstIdle ==
    /\ copy = "bot" /\ pc = "idle" /\ current_company = None
    /\ run_status = "created" /\ tool_calls = <<>> /\ callIdx = 0 /\ outputs = <<>>
    /\ result = NoResult /\ listing = NoListing
    /\ nReq = 0 /\ nSubmit = 0 /\ nList = 0

\* no build is under way and the second process has loaded nothing yet
RebuildIdle ==
    /\ writer = [pc |-> "idle", index |-> AbsentIndex]
    /\ loaded = _load_index(AbsentIndex)

\* no chunker call has been made
NoChunkCall == [op |-> "none", text |-> <<>>, size |-> 0, overlap |-> 0]
ChunkerIdle == chunkCall = NoChunkCall /\ chunkRet = <<>>

\* the classifier has not been called
NoClsCall == [op |-> "none", copy |-> "bot", text |-> <<>>]
ClsIdle == clsCall = NoClsCall /\ verdict = FALSE

\* bot.py 41-43: the globals of a process that has not loaded anything, and
\* no cache file on the disk
NoFaqFile == [exists |-> FALSE, valid |-> TRUE, shape |-> "dict", topics |-> <<>>]
NoHandled == [op |-> "none", status |-> "none", fail |-> "none",
              from_user |-> "none"]
NoIndexFile == [exists |-> FALSE, embeddings |-> <<>>, chunks |-> <<>>]
NoBuilt == [by |-> "none", inputs |-> <<>>, ran |-> FALSE]
ServIdle ==
    /\ server = "bot" /\ aboutFile = NoFile /\ faqFile = NoFaqFile
    /\ indexFile = NoIndexFile
    /\ ABOUT_TEXT = [some |-> FALSE, text |-> <<>>] /\ ACTIVE_FAQ_TOPICS = <<>> /\ FAQ_CACHE = <<>>
    /\ handled = NoHandled /\ lastBuild = NoBuilt

\* no tool has been called
NoToolCall == [op |-> "none", copy |-> "bot", found |-> <<>>, max_results |-> 0,
               raised |-> FALSE, url |-> <<>>, final |-> <<>>, http_ok |-> FALSE,
               max_chars |-> 0,
               query |-> [some |-> FALSE, text |-> <<>>],
               company |-> [some |-> FALSE, text |-> <<>>]]
NoToolRet == [results |-> <<>>, text |-> <<>>, searched |-> <<>>]
ToolsIdle == toolCall = NoToolCall /\ toolRet = NoToolRet

\* no text message has come in
NoAsked == [pc |-> "none", copy |-> "bot", question |-> <<>>, links |-> <<>>]
\* the chats, and a chat that has sent nothing
Chats == {"chat1", "chat2"}
NoReply == [kind |-> "none", text |-> <<>>, links |-> <<>>]
NoSession == [pc |-> "none", text |-> <<>>, relevant |-> FALSE,
              result |-> NoResult, found |-> <<>>, reply |-> NoReply]
TextIdle ==
    /\ asked = NoAsked /\ sent = <<>>
    /\ sessions = [s \in Chats |-> NoSession]

OthersIdle ==
    RebuildIdle /\ ChunkerIdle /\ ClsIdle /\ ServIdle /\ ToolsIdle /\ TextIdle

InitRag ==
    /\ embFile = NoFile /\ chunksFile = NoFile /\ metaFile = NoMeta
    /\ call = NoCall /\ ret = NoRet /\ embedCalls = 0
    /\ AsstIdle /\ OthersIdle

NextRag == Ingest \/ Retrieve \/ Return

SpecRag == InitRag /\ [][NextRag]_vars

(***************************************************************************)
(* answer_via_assistant (bot.py 381-440, webhook.py 232-308,               *)
(* assistant_runner.py 54-119)                                             *)
(***************************************************************************)
Copies == {"bot", "webhook", "runner"}

\* run.status values the provider reports; "incomplete" stands for any other one
Statuses == {"queued", "in_progress", "requires_action", "completed",
             "failed", "cancelled", "expired", "incomplete"}

ToolNames == {"web_search", "web_fetch", "other"}

\* call.function.arguments, by what the orchestrator can make of it:
\*   "object"       a JSON object (or an empty string) with usable values
\*   "unparseable"  not JSON: json.loads raises
\*   "non_object"   valid JSON that is no object (a list, null, a number)
\*   "bad_int"      a JSON object whose max_results / max_chars int() rejects
ArgKinds == {"object", "unparseable", "non_object", "bad_int"}

CallKinds == [name : ToolNames, args : ArgKinds]

\* the batches of pending tool calls a requires_action run can carry (one or more)
Batches ==
    {[j \in 1..Len(b) |-> [id |-> j, name |-> b[j].name, args |-> b[j].args]] :
        b \in SeqsUpTo(CallKinds, MaxCalls) \ {<<>>}}

\* message content parts; a text value is a sequence of characters
TextPart(v) == [type |-> "text", value |-> v]
ImagePart   == [type |-> "image_file", value |-> <<>>]
Contents ==
    { <<>>, <<ImagePart>>, <<TextPart(<<" ">>)>>, <<TextPart(<<"a", " ">>)>>,
      <<TextPart(<<" ">>), TextPart(<<"a", " ">>)>>,
      <<ImagePart, TextPart(<<" ", "b">>)>>,
      <<TextPart(<<"a", " ">>), TextPart(<<" ", "b">>)>> }
Messages ==
    {[role |-> "user", content |-> <<TextPart(<<"q">>)>>]}
    \cup {[role |-> "assistant", content |-> c] : c \in Contents}
\* msgs.data, most recent first (order="desc")
Listings == SeqsUpTo(Messages, MaxMsgs)

IsSpace(c) == c \in {" ", "\n"}

RECURSIVE LStrip(_)
LStrip(s) == IF s = <<>> THEN <<>>
             ELSE IF IsSpace(Head(s)) THEN LStrip(Tail(s)) ELSE s
RECURSIVE RStrip(_)
RStrip(s) == IF s = <<>> THEN <<>>
             ELSE IF IsSpace(s[Len(s)]) THEN RStrip(SubSeq(s, 1, Len(s) - 1)) ELSE s
\* str.strip()
Strip(s) == RStrip(LStrip(s))

\* "\n".join(parts)
RECURSIVE JoinLines(_)
JoinLines(parts) ==
    IF parts = <<>> THEN <<>>
    ELSE IF Len(parts) = 1 THEN parts[1]
    ELSE parts[1] \o <<"\n">> \o JoinLines(Tail(parts))

\* "".join(parts)
RECURSIVE Flat(_)
Flat(parts) == IF parts = <<>> THEN <<>> ELSE Head(parts) \o Flat(Tail(parts))

\* bot.py 431-434: the values of the text parts of a message, in order
RECURSIVE TextValues(_)
TextValues(content) ==
    IF content = <<>> THEN <<>>
    ELSE (IF Head(content).type = "text" THEN <<Head(content).value>> ELSE <<>>)
         \o TextValues(Tail(content))

\* FinalAnswer reading the listing as if it were oldest first: the answer comes
\* from the last assistant message of msgs.data instead of the first
RECURSIVE FinalAnswer_Oldest(_)
FinalAnswer_Oldest(data) ==
    IF data = <<>> THEN NoResult
    ELSE IF data[Len(data)].role = "assistant"
         THEN LET answer == Strip(JoinLines(TextValues(data[Len(data)].content)))
              IN  IF answer = <<>> THEN NoResult ELSE [some |-> TRUE, text |-> answer]
         ELSE FinalAnswer_Oldest(SubSeq(data, 1, Len(data) - 1))

\* bot.py 429-437: the answer taken from msgs.data
RECURSIVE FinalAnswer(_)
FinalAnswer(data) ==
    IF data = <<>> THEN NoResult
    ELSE IF Head(data).role = "assistant"
         THEN LET answer == Strip(JoinLines(TextValues(Head(data).content)))
              IN  IF answer = <<>> THEN NoResult ELSE [some |-> TRUE, text |-> answer]
         ELSE FinalAnswer(Tail(data))

\* bot.py 385/439-440 and webhook.py 241/307-308 wrap the body in try/except and
\* return None; assistant_runner.py 54-119 has no try, the exception propagates.
OnException(c) == IF c = "runner" THEN "raised" ELSE "returned"

\* ToolOutput with the else branch raising on a tool name it does not know
ToolOutput_UnknownRaises(tc) ==
    LET args == IF tc.args = "unparseable" THEN "object" ELSE tc.args
    IN  IF tc.name = "web_search"
        THEN [raised |-> args \in {"non_object", "bad_int"},
              out |-> [tool_call_id |-> tc.id, output |-> "search_results"]]
        ELSE IF tc.name = "web_fetch"
        THEN [raised |-> args \in {"non_object", "bad_int"},
              out |-> [tool_call_id |-> tc.id, output |-> "fetch_result"]]
        ELSE [raised |-> TRUE,
              out |-> [tool_call_id |-> tc.id, output |-> "unknown_tool"]]

\* bot.py 401-422: the output built for one pending call, or an exception
ToolOutput(tc) ==
    LET args == IF tc.args = "unparseable" THEN "object" ELSE tc.args
    IN  IF tc.name = "web_search"
        THEN [raised |-> args \in {"non_object", "bad_int"},
              out |-> [tool_call_id |-> tc.id, output |-> "search_results"]]
        ELSE IF tc.name = "web_fetch"
        THEN [raised |-> args \in {"non_object", "bad_int"},
              out |-> [tool_call_id |-> tc.id, output |-> "fetch_result"]]
        ELSE [raised |-> FALSE,
              out |-> [tool_call_id |-> tc.id, output |-> "unknown_tool"]]

\* the embedding of the fixed query text of extract_current_company_from_local_index
CompanyQueryVec == <<1, 0>>

\* bot.py 316-341 and webhook.py 206-229, given what retrieve returned (r) and the
\* company the completion names (llm). In bot.py the hits go through _norm_ctx;
\* webhook.py unpacks each hit as a pair, which raises on the dicts of rag.retrieve.
extract_current_company(c, r, llm) ==
    IF r.status = "raised" THEN [raised |-> TRUE, company |-> None]
    ELSE IF r.hits = <<>> THEN [raised |-> FALSE, company |-> None]
    ELSE IF c = "webhook" THEN [raised |-> TRUE, company |-> None]
    ELSE [raised |-> FALSE, company |-> llm]

Terminal == {"returned", "raised"}

\* leave through the except clause (or, without one, by raising)
Abort ==
    /\ pc' = OnException(copy)
    /\ result' = NoResult

\* bot.py 381-388: the assistant_id guard, then thread, message and run creation
StartRun ==
    /\ pc = "idle" /\ call.op = "none"
    /\ \E c \in Copies, configured \in BOOLEAN, created \in BOOLEAN :
         /\ copy' = c
         /\ IF ~configured
            THEN pc' = "returned"
            ELSE IF ~created
            THEN pc' = OnException(c)
            ELSE pc' = IF c = "runner" THEN "poll" ELSE "company"
    /\ UNCHANGED <<current_company, run_status, tool_calls, callIdx, outputs,
                   result, listing, nReq, nSubmit, nList>>
    /\ UNCHANGED <<ragVars, otherVars>>

\* bot.py 390
ExtractCompany ==
    /\ pc = "company"
    /\ \E embedOK \in BOOLEAN, llm \in {None, "Acme"} :
         \E r \in retrieve(CompanyQueryVec, DefaultTopK, embedOK, OnDisk) :
            LET x == extract_current_company(copy, r, llm)
            IN  IF x.raised
                THEN Abort /\ UNCHANGED current_company
                ELSE /\ current_company' = x.company
                     /\ pc' = "poll"
                     /\ UNCHANGED result
    /\ UNCHANGED <<copy, run_status, tool_calls, callIdx, outputs,
                   listing, nReq, nSubmit, nList>>
    /\ UNCHANGED <<ragVars, otherVars>>

\* bot.py 393-394: sleep, then runs.retrieve
Poll ==
    /\ pc = "poll"
    /\ \/ /\ Abort
          /\ UNCHANGED <<run_status, tool_calls, nReq>>
       \/ \E st \in Statuses \ {"requires_action"} :
            /\ run_status' = st
            /\ pc' = "dispatch"
            /\ UNCHANGED <<result, tool_calls, nReq>>
       \/ /\ nReq < MaxReq
          /\ \E b \in Batches :
               /\ run_status' = "requires_action"
               /\ tool_calls' = b
               /\ nReq' = nReq + 1
               /\ pc' = "dispatch"
               /\ UNCHANGED result
    /\ UNCHANGED <<copy, current_company, callIdx, outputs, listing, nSubmit, nList>>
    /\ UNCHANGED <<ragVars, otherVars>>

\* bot.py 395-396
KeepPolling ==
    /\ pc = "dispatch" /\ run_status \in {"queued", "in_progress"}
    /\ pc' = "poll"
    /\ UNCHANGED <<copy, current_company, run_status, tool_calls, callIdx, outputs,
                   result, listing, nReq, nSubmit, nList>>
    /\ UNCHANGED <<ragVars, otherVars>>

\* BeginToolCalls with "requires_action" lumped with the statuses that only wait
BeginToolCalls_Skip ==
    /\ pc = "dispatch" /\ run_status = "requires_action"
    /\ pc' = "poll"
    /\ UNCHANGED <<copy, current_company, run_status, tool_calls, callIdx, outputs,
                   result, listing, nReq, nSubmit, nList>>
    /\ UNCHANGED <<ragVars, otherVars>>

\* bot.py 397-399
BeginToolCalls ==
    /\ pc = "dispatch" /\ run_status = "requires_action"
    /\ outputs' = <<>> /\ callIdx' = 0
    /\ pc' = IF tool_calls = <<>> THEN "submit" ELSE "tools"
    /\ UNCHANGED <<copy, current_company, run_status, tool_calls,
                   result, listing, nReq, nSubmit, nList>>
    /\ UNCHANGED <<ragVars, otherVars>>

\* bot.py 400-422: one turn of the for loop
HandleToolCall ==
    /\ pc = "tools"
    /\ LET o == ToolOutput(tool_calls[callIdx + 1])
       IN  IF o.raised
           THEN Abort /\ UNCHANGED <<callIdx, outputs>>
           ELSE /\ outputs' = Append(outputs, o.out)
                /\ callIdx' = callIdx + 1
                /\ pc' = IF callIdx + 1 = Len(tool_calls) THEN "submit" ELSE "tools"
                /\ UNCHANGED result
    /\ UNCHANGED <<copy, current_company, run_status, tool_calls,
                   listing, nReq, nSubmit, nList>>
    /\ UNCHANGED <<ragVars, otherVars>>

\* bot.py 423-426: submit the batch and continue; run is rebound to the run the
\* provider returns. tool_calls and outputs are rebuilt at the next
\* requires_action, so they are dropped here.
SubmitToolOutputs ==
    /\ pc = "submit"
    /\ \/ /\ Abort
          /\ UNCHANGED <<run_status, tool_calls, callIdx, outputs>>
       \/ /\ \E st \in {"queued", "in_progress"} : run_status' = st
          /\ tool_calls' = <<>> /\ outputs' = <<>> /\ callIdx' = 0
          /\ pc' = "poll"
          /\ UNCHANGED result
    /\ nSubmit' = nSubmit + 1
    /\ UNCHANGED <<copy, current_company, listing, nReq, nList>>
    /\ UNCHANGED <<ragVars, otherVars>>

\* bot.py 427-437
ListMessages ==
    /\ pc = "dispatch" /\ run_status = "completed"
    /\ \/ /\ Abort
          /\ UNCHANGED listing
       \/ \E data \in Listings :
            /\ listing' = [ok |-> TRUE, data |-> data]
            /\ result' = FinalAnswer(data)
            /\ pc' = "returned"
    /\ nList' = nList + 1
    /\ UNCHANGED <<copy, current_company, run_status, tool_calls, callIdx, outputs,
                   nReq, nSubmit>>
    /\ UNCHANGED <<ragVars, otherVars>>

\* ReturnNone with the failed statuses falling into the "completed" branch
ReturnNone_ReadsMessages ==
    /\ pc = "dispatch"
    /\ run_status \notin {"queued", "in_progress", "requires_action", "completed"}
    /\ \E data \in Listings :
         /\ listing' = [ok |-> TRUE, data |-> data]
         /\ result' = FinalAnswer(data)
         /\ pc' = "returned"
    /\ nList' = nList + 1
    /\ UNCHANGED <<copy, current_company, run_status, tool_calls, callIdx, outputs,
                   nReq, nSubmit>>
    /\ UNCHANGED <<ragVars, otherVars>>

\* bot.py 438
ReturnNone ==
    /\ pc = "dispatch"
    /\ run_status \notin {"queued", "in_progress", "requires_action", "completed"}
    /\ pc' = "returned" /\ result' = NoResult
    /\ UNCHANGED <<copy, current_company, run_status, tool_calls, callIdx, outputs,
                   listing, nReq, nSubmit, nList>>
    /\ UNCHANGED <<ragVars, otherVars>>

\* the indexes the serving process can find on disk: none yet, or one ingest built
ServedIndexes ==
    {AbsentIndex} \cup
    {ingest(s, 0, AbsentIndex).index : s \in {<<DocEmpty>>, <<DocCV>>, <<DocCV, DocNotes>>}}

InitAssistant ==
    /\ \E idx \in ServedIndexes :
         embFile = idx.emb /\ chunksFile = idx.chunks /\ metaFile = idx.meta
    /\ call = NoCall /\ ret = NoRet /\ embedCalls = 0
    /\ AsstIdle /\ OthersIdle

NextAssistant ==
    \/ StartRun \/ ExtractCompany \/ Poll \/ KeepPolling \/ BeginToolCalls
    \/ HandleToolCall \/ SubmitToolOutputs \/ ListMessages \/ ReturnNone

SpecAssistant == InitAssistant /\ [][NextAssistant]_vars

\* the event loop resumes the coroutine after every await
FairSpecAssistant == SpecAssistant /\ WF_vars(NextAssistant)

(***************************************************************************)
(* rag.py -- a build seen from a second process. ingest is the library     *)
(* entry point of the index (run from a shell or another worker) while the *)
(* bot process answers questions: _save_index writes its three files one   *)
(* after the other (rag.py 159, 160-162, 163-164), and _load_index of the  *)
(* serving process may run between any two of the writes.                  *)
(***************************************************************************)
\* rag.py 183-241: ingest up to the call of _save_index
BeginIngest ==
    /\ writer.pc = "idle" /\ call.op = "none"
    /\ \E sources \in SourceLists, failAt \in 0..MaxFailAt :
         LET r == ingest(sources, failAt, OnDisk)
             writes == r.status = "ok"
         IN  /\ call' = [op |-> "ingest", sources |-> sources, q |-> <<0, 0>>,
                         k |-> 0, embedOK |-> failAt = 0, failAt |-> failAt]
             /\ ret' = [status |-> IF writes THEN "saving" ELSE r.status,
                        hits |-> <<>>, stats |-> r.stats]
             /\ embedCalls' = r.embeds
             /\ writer' = [pc |-> IF writes THEN "embeddings" ELSE "idle",
                           index |-> IF writes THEN r.index ELSE AbsentIndex]
    /\ UNCHANGED <<embFile, chunksFile, metaFile, loaded, asstVars, sideVars>>

\* rag.py 159: np.save(EMBEDDINGS_FILE, ...)
WriteEmbeddings ==
    /\ writer.pc = "embeddings"
    /\ embFile' = writer.index.emb
    /\ writer' = [writer EXCEPT !.pc = "chunks"]
    /\ UNCHANGED <<chunksFile, metaFile, call, ret, embedCalls, loaded, asstVars, sideVars>>

\* rag.py 160-162: chunks.jsonl
WriteChunks ==
    /\ writer.pc = "chunks"
    /\ chunksFile' = writer.index.chunks
    /\ writer' = [writer EXCEPT !.pc = "meta"]
    /\ UNCHANGED <<embFile, metaFile, call, ret, embedCalls, loaded, asstVars, sideVars>>

\* rag.py 163-164: meta.json, then ingest returns its statistics (242-243)
WriteMeta ==
    /\ writer.pc = "meta"
    /\ metaFile' = writer.index.meta
    /\ writer' = [pc |-> "idle", index |-> AbsentIndex]
    /\ ret' = [ret EXCEPT !.status = "ok"]
    /\ UNCHANGED <<embFile, chunksFile, call, embedCalls, loaded, asstVars, sideVars>>

\* rag.py 254 / 327: _load_index in the serving process
Observe ==
    /\ loaded' = _load_index(OnDisk)
    /\ loaded' # loaded
    /\ UNCHANGED <<ragVars, writer, asstVars, sideVars>>

\* the caller of a finished ingest takes its value
ReturnFromBuild == writer.pc = "idle" /\ Return

InitRebuild ==
    /\ embFile = NoFile /\ chunksFile = NoFile /\ metaFile = NoMeta
    /\ call = NoCall /\ ret = NoRet /\ embedCalls = 0
    /\ AsstIdle /\ OthersIdle

NextRebuild ==
    \/ BeginIngest \/ WriteEmbeddings \/ WriteChunks \/ WriteMeta
    \/ Observe \/ ReturnFromBuild

SpecRebuild == InitRebuild /\ [][NextRebuild]_vars

(***************************************************************************)
(* rag._split_into_chunks (rag.py 54-104). A text is a sequence of         *)
(* characters: a letter, a full stop, a space, a newline.                  *)
(***************************************************************************)
ChunkChars == {"a", ".", " ", "\n"}
ChunkTexts ==
    SeqsUpTo(ChunkChars, MaxTextLen) \cup SeqsUpTo(ChunkChars \ {" "}, MaxLongLen)

\* the characters of the lookbehind (?<=[.!?])
Punct == {".", "!", "?"}

Min(S) == CHOOSE x \in S : \A y \in S : x <= y
Max(S) == CHOOSE x \in S : \A y \in S : x >= y

\* rag.py 63: where the match of \n\s*\n that starts at position i ends (the
\* match is greedy: it runs to the last newline of the whitespace run); 0 if
\* no match starts at i
ParaSepEnd(s, i) ==
    IF s[i] # "\n" THEN 0
    ELSE LET ends == {k \in (i + 1)..Len(s) :
                        s[k] = "\n" /\ \A m \in (i + 1)..k : IsSpace(s[m])}
         IN  IF ends = {} THEN 0 ELSE Max(ends)

\* rag.py 63: re.split(r"\n\s*\n", text)
RECURSIVE SplitParas(_)
SplitParas(s) ==
    LET starts == {i \in 1..Len(s) : ParaSepEnd(s, i) > 0}
    IN  IF starts = {} THEN <<s>>
        ELSE LET i == Min(starts)
             IN  <<SubSeq(s, 1, i - 1)>>
                    \o SplitParas(SubSeq(s, ParaSepEnd(s, i) + 1, Len(s)))

\* rag.py 63: [p.strip() for p in ... if p.strip()]
Paras(text) ==
    LET parts == SplitParas(text)
    IN  SelectSeq([i \in 1..Len(parts) |-> Strip(parts[i])], LAMBDA p : p # <<>>)

\* rag.py 78: re.split(r"(?<=[.!?])\s+", p) -- a whitespace run that follows a
\* sentence-ending character separates two sentences
RECURSIVE SplitSents(_)
SplitSents(s) ==
    LET starts == {i \in 2..Len(s) : IsSpace(s[i]) /\ s[i - 1] \in Punct}
    IN  IF starts = {} THEN <<s>>
        ELSE LET i == Min(starts)
                 j == Max({k \in i..Len(s) : \A m \in i..k : IsSpace(s[m])})
             IN  <<SubSeq(s, 1, i - 1)>> \o SplitSents(SubSeq(s, j + 1, Len(s)))

\* rag.py 75-87: the units the loop packs, in order: a paragraph, or the
\* sentences of a paragraph longer than max_chars
RECURSIVE Units(_, _)
Units(paras, max_chars) ==
    IF paras = <<>> THEN <<>>
    ELSE (IF Len(Head(paras)) > max_chars THEN SplitSents(Head(paras))
          ELSE <<Head(paras)>>)
         \o Units(Tail(paras), max_chars)

\* flush() without the "if buff" test: the flush after the loop emits a chunk
\* even when nothing was buffered
Flush_Always(st) ==
    [chunks |-> Append(st.chunks, Strip(JoinLines(st.buff))),
     buff |-> <<>>, size |-> 0]

\* rag.py 68-73: flush()
Flush(st) ==
    IF st.buff # <<>>
    THEN [chunks |-> Append(st.chunks, Strip(JoinLines(st.buff))),
          buff |-> <<>>, size |-> 0]
    ELSE st

\* rag.py 80-83 and 85-88: one unit enters the buffer
AddUnit(st, u, max_chars) ==
    LET st1 == IF st.size + Len(u) + 1 > max_chars /\ st.size > 0
               THEN Flush(st) ELSE st
    IN  [st1 EXCEPT !.buff = Append(@, u), !.size = @ + Len(u) + 1]

RECURSIVE Pack(_, _, _)
Pack(units, st, max_chars) ==
    IF units = <<>> THEN st
    ELSE Pack(Tail(units), AddUnit(st, Head(units), max_chars), max_chars)

\* rag.py 63-90: the chunks before the overlap is added
BaseChunks(text, max_chars) ==
    Flush(Pack(Units(Paras(text), max_chars),
               [chunks |-> <<>>, buff |-> <<>>, size |-> 0], max_chars)).chunks

\* s[-n:] for n > 0
LastN(s, n) == IF Len(s) <= n THEN s ELSE SubSeq(s, Len(s) - n + 1, Len(s))

\* rag.py 96-102
Overlapped(cs, overlap) ==
    [i \in 1..Len(cs) |->
        IF i = 1 THEN cs[1]
        ELSE Strip(LastN(cs[i - 1], overlap) \o <<"\n">> \o cs[i])]

\* rag.py 54-104
_split_into_chunks(text, max_chars, overlap) ==
    LET cs == BaseChunks(text, max_chars)
    IN  IF overlap <= 0 \/ cs = <<>> THEN cs ELSE Overlapped(cs, overlap)

SplitIntoChunks ==
    /\ chunkCall.op = "none"
    /\ \E text \in ChunkTexts, max_chars \in 1..MaxChars, overlap \in 0..MaxOverlap :
         /\ chunkCall' = [op |-> "_split_into_chunks", text |-> text,
                          size |-> max_chars, overlap |-> overlap]
         /\ chunkRet' = _split_into_chunks(text, max_chars, overlap)
    /\ UNCHANGED besidesChunker

(***************************************************************************)
(* ingestion.chunk_text (ingestion.py 93-106). cl100k_base is a byte-level *)
(* BPE: a token is a string of bytes, and a character that no merge covers *)
(* (an emoji, a rare symbol) is spread over several tokens. "W" is such a  *)
(* character, of two tokens; "a" and " " are tokens of their own.          *)
(***************************************************************************)
TokChars == {"a", " ", "W"}
TokTexts == SeqsUpTo(TokChars, MaxTokLen)

\* ingestion.py 95: enc.encode(text)
RECURSIVE Encode(_)
Encode(text) ==
    IF text = <<>> THEN <<>>
    ELSE (IF Head(text) = "W" THEN <<"W1", "W2">> ELSE <<Head(text)>>)
         \o Encode(Tail(text))

\* ingestion.py 101: enc.decode(tokens) decodes the bytes with errors="replace":
\* bytes that do not make up a character come out as U+FFFD, written "?"
RECURSIVE Decode(_)
Decode(toks) ==
    IF toks = <<>> THEN <<>>
    ELSE IF Head(toks) = "W1" /\ Len(toks) >= 2 /\ toks[2] = "W2"
         THEN <<"W">> \o Decode(Tail(Tail(toks)))
    ELSE IF Head(toks) \in {"W1", "W2"} THEN <<"?">> \o Decode(Tail(toks))
    ELSE <<Head(toks)>> \o Decode(Tail(toks))

\* a whitespace run becomes one space
RECURSIVE Squash(_)
Squash(s) ==
    IF s = <<>> THEN <<>>
    ELSE IF IsSpace(Head(s))
         THEN (IF Len(s) >= 2 /\ IsSpace(s[2]) THEN <<>> ELSE <<" ">>) \o Squash(Tail(s))
    ELSE <<Head(s)>> \o Squash(Tail(s))

\* ingestion.py 102: " ".join(chunk.split())
JoinSplit(s) == Squash(Strip(s))

\* ingestion.py 100-102: the chunk of the window that starts after `start` tokens
WindowChunk(toks, start, tokens_per_chunk) ==
    JoinSplit(Decode(SubSeq(toks, start + 1, Min({start + tokens_per_chunk, Len(toks)}))))

\* ingestion.py 98: step = max(1, tokens_per_chunk - overlap)
Step(tokens_per_chunk, overlap) == Max({1, tokens_per_chunk - overlap})

\* ingestion.py 99-105: the while loop
RECURSIVE ChunkLoop(_, _, _, _)
ChunkLoop(toks, start, tokens_per_chunk, step) ==
    IF start >= Len(toks) THEN <<>>
    ELSE LET chunk == WindowChunk(toks, start, tokens_per_chunk)
         IN  (IF Strip(chunk) # <<>> THEN <<chunk>> ELSE <<>>)
             \o ChunkLoop(toks, start + step, tokens_per_chunk, step)

\* ingestion.py 93-106
chunk_text(text, tokens_per_chunk, overlap) ==
    ChunkLoop(Encode(text), 0, tokens_per_chunk, Step(tokens_per_chunk, overlap))

ChunkText ==
    /\ chunkCall.op = "none"
    /\ \E text \in TokTexts, tokens_per_chunk \in 1..MaxChars, overlap \in 0..MaxOverlap :
         /\ chunkCall' = [op |-> "chunk_text", text |-> text,
                          size |-> tokens_per_chunk, overlap |-> overlap]
         /\ chunkRet' = chunk_text(text, tokens_per_chunk, overlap)
    /\ UNCHANGED besidesChunker

\* the caller takes the list
ChunkerReturn ==
    /\ chunkCall.op # "none"
    /\ chunkCall' = NoChunkCall /\ chunkRet' = <<>>
    /\ UNCHANGED besidesChunker

InitChunker ==
    /\ embFile = NoFile /\ chunksFile = NoFile /\ metaFile = NoMeta
    /\ call = NoCall /\ ret = NoRet /\ embedCalls = 0
    /\ AsstIdle /\ OthersIdle

NextChunker == SplitIntoChunks \/ ChunkText \/ ChunkerReturn

SpecChunker == InitChunker /\ [][NextChunker]_vars

(***************************************************************************)
(* The non-answer classifier, in its three copies: bot.is_empty_message    *)
(* (bot.py 46-72), webhook.is_empty_message (webhook.py 41-66) and         *)
(* ingestion.is_empty_faq_answer (ingestion.py 60-80). A text is a         *)
(* sequence of characters; a Cyrillic letter is written "~" and its        *)
(* transliteration ("~n" for the letter en, "~N" for its capital, "~yo"    *)
(* for the letter yo). A regular expression is the set of its              *)
(* alternatives, an alternative a sequence of items: a literal, \s+, \s*   *)
(* or \b.                                                                  *)
(***************************************************************************)
Lit(chars) == [kind |-> "lit", chars |-> chars]
Spaces1    == [kind |-> "s+", chars |-> <<>>]
Spaces0    == [kind |-> "s*", chars |-> <<>>]
WordEdge   == [kind |-> "b", chars |-> <<>>]

\* the nine regular expressions the three copies share (bot.py 47-55,
\* webhook.py 42-50, ingestion.py 69-77), each as the set of its alternatives
SharedPatterns ==
    {
    \* bot.py 47
      <<Lit(<<"~n", "~e", "~t">>), Spaces1, Lit(<<"~i", "~n", "~f", "~o",
        "~r", "~m", "~a", "~c", "~i">>)>>,
    \* bot.py 47
      <<Lit(<<"~n", "~e", "~t">>), Spaces1, Lit(<<"~k", "~o", "~n", "~k",
        "~r", "~e", "~t", "~n", "~o", "~j">>), Spaces1, Lit(<<"~i", "~n", "~f",
        "~o", "~r", "~m", "~a", "~c", "~i">>)>>,
    \* bot.py 48
      <<Lit(<<"~v">>), Spaces1, Lit(<<"~r", "~e", "~z", "~yu", "~m", "~e">>),
        Spaces1, Lit(<<"~n", "~e", "~t">>)>>,
    \* bot.py 48
      <<Lit(<<"~v">>), Spaces1, Lit(<<"~k", "~o", "~n", "~t", "~e", "~k",
        "~s", "~t", "~e">>), Spaces1, Lit(<<"~n", "~e", "~t">>)>>,
    \* bot.py 48
      <<Lit(<<"~v">>), Spaces1, Lit(<<"~f", "~r", "~a", "~g", "~m", "~e",
        "~n", "~t">>), Spaces1, Lit(<<"~n", "~e", "~t">>)>>,
    \* bot.py 48
      <<Lit(<<"~v">>), Spaces1, Lit(<<"~f", "~r", "~a", "~g", "~m", "~e",
        "~n", "~t", "~a", "~h">>), Spaces1, Lit(<<"~n", "~e", "~t">>)>>,
    \* bot.py 48
      <<Lit(<<"~v">>), Spaces1, Lit(<<"~p", "~r", "~e", "~d", "~o", "~s",
        "~t", "~a", "~v", "~l", "~e", "~n", "~n", "~y", "~h">>), Spaces1,
        Lit(<<"~f", "~r", "~a", "~g", "~m", "~e", "~n", "~t">>), Spaces1,
        Lit(<<"~n", "~e", "~t">>)>>,
    \* bot.py 48
      <<Lit(<<"~v">>), Spaces1, Lit(<<"~p", "~r", "~e", "~d", "~o", "~s",
        "~t", "~a", "~v", "~l", "~e", "~n", "~n", "~y", "~h">>), Spaces1,
        Lit(<<"~f", "~r", "~a", "~g", "~m", "~e", "~n", "~t", "~a", "~h">>),
        Spaces1, Lit(<<"~n", "~e", "~t">>)>>,
    \* bot.py 49
      <<Lit(<<"~n", "~e">>), Spaces1, Lit(<<"~n", "~a", "~sh", "~l", "~o",
        "~s", "~x">>)>>,
    \* bot.py 49
      <<Lit(<<"~n", "~e">>), Spaces1, Lit(<<"~n", "~a", "~sh", "~e", "~l",
        "~o", "~s", "~x">>)>>,
    \* bot.py 50
      <<Lit(<<"~n", "~e">>), Spaces1, Lit(<<"~n", "~a", "~j", "~d", "~e",
        "~n", "~o">>)>>,
    \* bot.py 51
      <<Lit(<<"~d", "~a", "~n", "~n", "~y", "~h">>), Spaces1, Lit(<<"~n",
        "~e", "~t">>)>>,
    \* bot.py 52
      <<Lit(<<"~n", "~e">>), Spaces1, Lit(<<"~s", "~o", "~d", "~e", "~r",
        "~zh", "~i", "~t", "~s", "~ya">>)>>,
    \* bot.py 53
      <<Lit(<<"~k", "~o", "~n", "~t", "~e", "~k", "~s", "~t">>), Spaces1,
        Lit(<<"~n", "~e">>), Spaces1, Lit(<<"~n", "~a", "~j", "~d", "~e",
        "~n">>)>>,
    \* bot.py 54
      <<Lit(<<"~r", "~e", "~l", "~e", "~v", "~a", "~n", "~t", "~n", "~y",
        "~h">>), Spaces1, Lit(<<"~f", "~r", "~a", "~g", "~m", "~e", "~n",
        "~t">>)>>,
    \* bot.py 54
      <<Lit(<<"~r", "~e", "~l", "~e", "~v", "~a", "~n", "~t", "~n", "~y",
        "~e">>), Spaces1, Lit(<<"~f", "~r", "~a", "~g", "~m", "~e", "~n",
        "~t">>)>>,
    \* bot.py 55
      <<Lit(<<"~k", "~o", "~n", "~t", "~e", "~k", "~s", "~t">>), Spaces1,
        Lit(<<"~i", "~z">>), Spaces1, Lit(<<"~r", "~e", "~z", "~yu", "~m",
        "~e">>), Spaces1, Lit(<<"~n", "~e">>), Spaces1, Lit(<<"~n", "~a", "~j",
        "~d", "~e", "~n">>)>>
    }

\* bot.py 56: \bno\s*answer\b
NoAnswerPattern ==
    {<<WordEdge, Lit(<<"n", "o">>), Spaces0, Lit(<<"a", "n", "s", "w", "e",
        "r">>), WordEdge>>}

\* ingestion.py 78
FragmentsPattern ==
    {<<Lit(<<"~v">>), Spaces1, Lit(<<"~p", "~r", "~e", "~d", "~o", "~s",
        "~t", "~a", "~v", "~l", "~e", "~n", "~n", "~y", "~h">>), Spaces1,
        Lit(<<"~f", "~r", "~a", "~g", "~m", "~e", "~n", "~t">>), Spaces1,
        Lit(<<"~r", "~e", "~z", "~yu", "~m", "~e">>), Spaces1, Lit(<<"~n",
        "~e", "~t">>), Spaces1, Lit(<<"~k", "~o", "~n", "~k", "~r", "~e", "~t",
        "~n", "~o", "~j">>), Spaces1, Lit(<<"~i", "~n", "~f", "~o", "~r", "~m",
        "~a", "~c", "~i">>)>>,
     <<Lit(<<"~v">>), Spaces1, Lit(<<"~p", "~r", "~e", "~d", "~o", "~s",
        "~t", "~a", "~v", "~l", "~e", "~n", "~n", "~y", "~h">>), Spaces1,
        Lit(<<"~f", "~r", "~a", "~g", "~m", "~e", "~n", "~t">>), Spaces1,
        Lit(<<"~r", "~e", "~z", "~yu", "~m", "~e">>), Spaces1, Lit(<<"~n",
        "~e", "~t">>), Spaces1, Lit(<<"~k", "~o", "~n", "~k", "~r", "~e", "~t",
        "~n", "~y", "~h">>), Spaces1, Lit(<<"~i", "~n", "~f", "~o", "~r", "~m",
        "~a", "~c", "~i">>)>>,
     <<Lit(<<"~v">>), Spaces1, Lit(<<"~p", "~r", "~e", "~d", "~o", "~s",
        "~t", "~a", "~v", "~l", "~e", "~n", "~n", "~y", "~h">>), Spaces1,
        Lit(<<"~f", "~r", "~a", "~g", "~m", "~e", "~n", "~t", "~a", "~h">>),
        Spaces1, Lit(<<"~r", "~e", "~z", "~yu", "~m", "~e">>), Spaces1,
        Lit(<<"~n", "~e", "~t">>), Spaces1, Lit(<<"~k", "~o", "~n", "~k", "~r",
        "~e", "~t", "~n", "~o", "~j">>), Spaces1, Lit(<<"~i", "~n", "~f", "~o",
        "~r", "~m", "~a", "~c", "~i">>)>>,
     <<Lit(<<"~v">>), Spaces1, Lit(<<"~p", "~r", "~e", "~d", "~o", "~s",
        "~t", "~a", "~v", "~l", "~e", "~n", "~n", "~y", "~h">>), Spaces1,
        Lit(<<"~f", "~r", "~a", "~g", "~m", "~e", "~n", "~t", "~a", "~h">>),
        Spaces1, Lit(<<"~r", "~e", "~z", "~yu", "~m", "~e">>), Spaces1,
        Lit(<<"~n", "~e", "~t">>), Spaces1, Lit(<<"~k", "~o", "~n", "~k", "~r",
        "~e", "~t", "~n", "~y", "~h">>), Spaces1, Lit(<<"~i", "~n", "~f", "~o",
        "~r", "~m", "~a", "~c", "~i">>)>>}

\* the texts the classifier is given are made of these phrases
Blank == <<" ">>
Newline == <<"\n">>
NoAnswerSentinel == <<"N", "O", "_", "A", "N", "S", "W", "E", "R">>
NoAnswerWords == <<"N", "o", " ", "a", "n", "s", "w", "e", "r", ".">>
NotFoundInContext == <<"n", "o", "t", " ", "f", "o", "u", "n", "d", " ", "i",
                       "n", " ", "c", "o", "n", "t", "e", "x", "t">>
Substantive == <<"T", "h", "e", " ", "c", "a", "n", "d", "i", "d", "a", "t",
                 "e", " ", "h", "a", "s", " ", "2", "0", " ", "y", "e", "a",
                 "r", "s", " ", "o", "f", " ", "e", "x", "p", "e", "r", "i",
                 "e", "n", "c", "e", " ", "i", "n", " ", "A", "I", ".">>
NetInformacii == <<"~N", "~e", "~t", " ", "~i", "~n", "~f", "~o", "~r", "~m",
                   "~a", "~c", "~i", "~i">>
NetKonkretnoj == <<"~n", "~e", "~t", " ", "~k", "~o", "~n", "~k", "~r", "~e",
                   "~t", "~n", "~o", "~j", " ", "~i", "~n", "~f", "~o", "~r",
                   "~m", "~a", "~c", "~i", "~i">>
VRezyumeNet == <<"~V", " ", "~r", "~e", "~z", "~yu", "~m", "~e", " ", "~n",
                 "~e", "~t">>
NeNashlos == <<"~n", "~e", " ", "~n", "~a", "~sh", "~l", "~o", "~s", "~x">>
NeNashyolos == <<"~N", "~e", " ", "~n", "~a", "~sh", "~yo", "~l", "~o", "~s",
                 "~x">>
NeNajdeno == <<"~n", "~e", " ", "~n", "~a", "~j", "~d", "~e", "~n", "~o">>
DannyhNet == <<"~d", "~a", "~n", "~n", "~y", "~h", " ", "~n", "~e", "~t">>
NeSoderzhitsya == <<"~n", "~e", " ", "~s", "~o", "~d", "~e", "~r", "~zh",
                    "~i", "~t", "~s", "~ya">>
KontekstNeNajden == <<"~k", "~o", "~n", "~t", "~e", "~k", "~s", "~t", " ",
                      "~n", "~e", " ", "~n", "~a", "~j", "~d", "~e", "~n">>
RelevantnyhFragmentov == <<"~r", "~e", "~l", "~e", "~v", "~a", "~n", "~t",
                           "~n", "~y", "~h", " ", "~f", "~r", "~a", "~g", "~m",
                           "~e", "~n", "~t", "~o", "~v">>
KontekstIzRezyume == <<"~k", "~o", "~n", "~t", "~e", "~k", "~s", "~t", " ",
                       "~i", "~z", " ", "~r", "~e", "~z", "~yu", "~m", "~e",
                       " ", "~n", "~e", " ", "~n", "~a", "~j", "~d", "~e",
                       "~n">>
OpytLet == <<"~O", "~p", "~y", "~t", ":", " ", "2", "0", " ", "~l", "~e",
             "~t", ".">>

Phrases ==
    {Blank, Newline, NoAnswerSentinel, NoAnswerWords, NotFoundInContext,
     Substantive, NetInformacii, NetKonkretnoj, VRezyumeNet, NeNashlos,
     NeNashyolos, NeNajdeno, DannyhNet, NeSoderzhitsya, KontekstNeNajden,
     RelevantnyhFragmentov, KontekstIzRezyume, OpytLet}

\* str.lower() on the letters of the phrases
Lower(c) ==
    CASE c = "A" -> "a"
      [] c = "E" -> "e"
      [] c = "I" -> "i"
      [] c = "N" -> "n"
      [] c = "O" -> "o"
      [] c = "R" -> "r"
      [] c = "S" -> "s"
      [] c = "T" -> "t"
      [] c = "W" -> "w"
      [] c = "~V" -> "~v"
      [] c = "~N" -> "~n"
      [] c = "~O" -> "~o"
      [] OTHER -> c

\* the characters of the phrases that are not word characters (\w)
NonWordChars == {"\n", " ", ".", ":"}

\* the texts: up to MaxPhrases phrases one after the other
ClsTexts == {Flat(ps) : ps \in SeqsUpTo(Phrases, MaxPhrases)}

ClsCopies == {"bot", "webhook", "ingestion"}

\* bot.py 46-57, webhook.py 41-51, ingestion.py 68-79
EMPTY_PATTERNS(c) ==
    CASE c = "bot" -> SharedPatterns \cup NoAnswerPattern
      [] c = "webhook" -> SharedPatterns
      [] c = "ingestion" -> SharedPatterns \cup FragmentsPattern

\* text.lower().replace("yo", "e") (bot.py 71, webhook.py 65, ingestion.py 67)
Normalise(text) ==
    [i \in 1..Len(text) |-> IF Lower(text[i]) = "~yo" THEN "~e" ELSE Lower(text[i])]

\* whether position pos of t holds a word character (none outside the text)
WordAt(t, pos) == pos \in 1..Len(t) /\ t[pos] \notin NonWordChars

\* the items k.. of an alternative match t from position pos on
RECURSIVE MatchAt(_, _, _, _)
MatchAt(items, k, t, pos) ==
    IF k > Len(items) THEN TRUE
    ELSE LET it == items[k]
             n  == Len(it.chars)
         IN  CASE it.kind = "lit" ->
                    /\ pos + n - 1 <= Len(t)
                    /\ \A j \in 1..n : t[pos + j - 1] = it.chars[j]
                    /\ MatchAt(items, k + 1, t, pos + n)
               [] it.kind = "s+" ->
                    \E m \in 1..(Len(t) - pos + 1) :
                        /\ \A j \in pos..(pos + m - 1) : IsSpace(t[j])
                        /\ MatchAt(items, k + 1, t, pos + m)
               [] it.kind = "s*" ->
                    \E m \in 0..(Len(t) - pos + 1) :
                        /\ \A j \in pos..(pos + m - 1) : IsSpace(t[j])
                        /\ MatchAt(items, k + 1, t, pos + m)
               [] it.kind = "b" ->
                    /\ WordAt(t, pos - 1) # WordAt(t, pos)
                    /\ MatchAt(items, k + 1, t, pos)

\* any(re.search(p, t) for p in patterns)
AnySearch(patterns, t) ==
    \E alt \in patterns : \E pos \in 1..(Len(t) + 1) : MatchAt(alt, 1, t, pos)

\* bot.py 68-72, webhook.py 62-66, ingestion.py 60-80
is_empty_message(c, text) ==
    IF text = <<>> \/ Strip(text) = <<>> THEN TRUE
    ELSE AnySearch(EMPTY_PATTERNS(c), Normalise(text))

Classify ==
    /\ clsCall.op = "none"
    /\ \E c \in ClsCopies, text \in ClsTexts :
         /\ clsCall' = [op |-> "is_empty", copy |-> c, text |-> text]
         /\ verdict' = is_empty_message(c, text)
    /\ UNCHANGED besidesCls

\* the caller takes the verdict
ClsReturn ==
    /\ clsCall.op # "none"
    /\ clsCall' = NoClsCall /\ verdict' = FALSE
    /\ UNCHANGED besidesCls

InitClassifier ==
    /\ embFile = NoFile /\ chunksFile = NoFile /\ metaFile = NoMeta
    /\ call = NoCall /\ ret = NoRet /\ embedCalls = 0
    /\ AsstIdle /\ OthersIdle

NextClassifier == Classify \/ ClsReturn

SpecClassifier == InitClassifier /\ [][NextClassifier]_vars

(***************************************************************************)
(* The About/FAQ cache of the serving process: load_cache,                 *)
(* ensure_faq_ready and /reindex of bot.py and webhook.py, and             *)
(* ingestion.build_and_save_cache, which writes the files they read.       *)
(***************************************************************************)
NoText  == [some |-> FALSE, text |-> <<>>]
Text(t) == [some |-> TRUE, text |-> t]

Servers == {"bot", "webhook"}

\* bot.py 29, webhook.py 38, ingestion.py 16
CTA == <<"~V", "~y", " ", "~t", "~a", "~k", "~zh", "~e", " ", "~m", "~o",
         "~zh", "~e", "~t", "~e", " ", "~z", "~a", "~d", "~a", "~t", "~x",
         " ", "~v", "~o", "~p", "~r", "~o", "~s", " ", "~n", "~a", " ",
         "~e", "~s", "~t", "~e", "~s", "~t", "~v", "~e", "~n", "~n", "~o",
         "~m", " ", "~ya", "~z", "~y", "~k", "~e", ".">>

\* reply + "\n\n" + CTA
WithCTA(reply) == reply \o <<"\n", "\n">> \o CTA

Item(k, l, f, r) == [key |-> k, label |-> l, full |-> f, reply |-> r]

\* the first two topics of the catalog of bot.py (labels and questions are
\* written as short names)
hr_faq_catalog ==
    << [key |-> "who_now", label |-> "who_now-label", full |-> "who_now-full"],
       [key |-> "industry", label |-> "industry-label", full |-> "industry-full"] >>

\* the first two topics of the catalog of ingestion.py: (key, label, full_q)
FAQ_TOPICS ==
    << <<"who", "who-label", "who-full">>,
       <<"domain", "domain-label", "domain-full">> >>

\* what the completion provider gives for one topic: NoText stands for no
\* usable answer at all (no context retrieved, or the call raised in
\* _answer_from_resume), Text(t) for the message content t
Completions ==
    {Text(t) : t \in {OpytLet, NoAnswerSentinel, NoAnswerWords, NetInformacii}}

\* the same for every topic after the first
LaterCompletions == {NoText, Text(OpytLet \o Newline)}

\* the replies a cache file on the disk may hold
StoredReplies ==
    {<<>>, Blank, OpytLet, Blank \o OpytLet \o Newline,
     NoAnswerSentinel, WithCTA(OpytLet), WithCTA(NoAnswerWords),
     WithCTA(NetInformacii)}

\* the records a cache file on the disk may hold: well-formed ones under two
\* keys, and ones with an empty or blank field
FileItems ==
    {Item("who", "label", "full", r) : r \in StoredReplies}
        \cup {Item("team", "label", "full", OpytLet),
              Item("", "label", "full", OpytLet),
              Item(" ", "label", "full", OpytLet),
              Item("who", "", "full", OpytLet),
              Item("who", "label", " ", OpytLet)}

\* the second record of a two-record file: the same key again, or another
SecondItems ==
    {Item("who", "label2", "full", NetInformacii),
     Item("who", "label2", "full", OpytLet \o Newline),
     Item("team", "label", "full", OpytLet)}

\* the first record of a two-record file
FirstItems ==
    {Item("who", "label", "full", OpytLet),
     Item("who", "label", "full", WithCTA(NoAnswerWords))}

TopicLists ==
    {<<>>} \cup {<<a>> : a \in FileItems}
           \cup {<<a, b>> : a \in FirstItems, b \in SecondItems}

\* the lists of records a file may hold bare, without the "topics" wrapper
BareLists == {<<>>, <<Item("who", "label", "full", OpytLet)>>}

\* data/faq_cache.json: absent, not parseable as JSON (cut short), or a list
\* of records, bare or under "topics"
FaqFiles ==
    {NoFaqFile, [exists |-> TRUE, valid |-> FALSE, shape |-> "dict", topics |-> <<>>]}
        \cup {[exists |-> TRUE, valid |-> TRUE, shape |-> "dict", topics |-> ts] :
                 ts \in TopicLists}
        \cup {[exists |-> TRUE, valid |-> TRUE, shape |-> "list", topics |-> ts] :
                 ts \in BareLists}

AboutFiles == {NoFile, [exists |-> TRUE, data |-> WithCTA(Substantive)]}

\* str.strip() of a key, label or question: the blank one becomes empty
StripField(f) == IF f = " " THEN "" ELSE f

\* str.upper() on the letters of the phrases
Upper(c) ==
    CASE c = "a" -> "A"
      [] c = "e" -> "E"
      [] c = "i" -> "I"
      [] c = "n" -> "N"
      [] c = "o" -> "O"
      [] c = "r" -> "R"
      [] c = "s" -> "S"
      [] c = "t" -> "T"
      [] c = "w" -> "W"
      [] c = "~v" -> "~V"
      [] c = "~n" -> "~N"
      [] c = "~o" -> "~O"
      [] OTHER -> c

\* sub in t
Contains(sub, t) ==
    \E pos \in 1..(Len(t) - Len(sub) + 1) :
        SubSeq(t, pos, pos + Len(sub) - 1) = sub

\* FAQ_CACHE[key] = reply
Put(cache, key, reply) ==
    [k \in DOMAIN cache \cup {key} |-> IF k = key THEN reply ELSE cache[k]]

\* a load_cache that keeps every record it reads
Kept_Unfiltered(c, item) ==
    [keep |-> TRUE, key |-> item.key, reply |-> item.reply,
     topic |-> <<item.key, item.label, item.full>>]

\* bot.py 129-135, webhook.py 82-84: the fields of one record and whether the
\* record is kept
Kept(c, item) ==
    LET key   == IF c = "bot" THEN StripField(item.key) ELSE item.key
        label == IF c = "bot" THEN StripField(item.label) ELSE item.label
        full  == IF c = "bot" THEN StripField(item.full) ELSE item.full
        reply == IF c = "bot" THEN Strip(item.reply) ELSE item.reply
    IN  [keep  |-> /\ key # "" /\ label # "" /\ full # "" /\ reply # <<>>
                   /\ ~is_empty_message(c, reply),
         key   |-> key,
         reply |-> reply,
         topic |-> <<key, label, full>>]

\* bot.py 129-137, webhook.py 81-86: the loop over the records
RECURSIVE LoadLoop(_, _, _, _)
LoadLoop(c, items, active, cache) ==
    IF items = <<>> THEN [active |-> active, cache |-> cache]
    ELSE LET k == Kept(c, Head(items))
         IN  IF k.keep
             THEN LoadLoop(c, Tail(items), Append(active, k.topic),
                           Put(cache, k.key, k.reply))
             ELSE LoadLoop(c, Tail(items), active, cache)

\* bot.py 116-140, webhook.py 69-90: the globals after the call, and whether it
\* raised (the file is not JSON; in webhook.py, the payload is a bare list)
load_cache(c, about, faq) ==
    LET text == IF about.exists THEN Text(Strip(about.data)) ELSE NoText
        none == [status |-> "ok", about |-> text, active |-> <<>>, cache |-> <<>>]
    IN  IF ~faq.exists THEN none
        ELSE IF ~faq.valid \/ (c = "webhook" /\ faq.shape = "list")
        THEN [none EXCEPT !.status = "raised"]
        ELSE LET l == LoadLoop(c, faq.topics, <<>>, <<>>)
             IN  [none EXCEPT !.active = l.active, !.cache = l.cache]

\* bot.py 181-217: the answer for one topic, None for a non-answer
_answer_from_resume(raw) ==
    IF ~raw.some THEN NoText
    ELSE LET ans == Strip(raw.text)
         IN  IF \/ ans = <<>>
                \/ Contains(NoAnswerSentinel, [i \in 1..Len(ans) |-> Upper(ans[i])])
                \/ is_empty_message("bot", ans)
             THEN NoText
             ELSE Text(ans)

\* bot.py 222-230: the records built from the catalog
Built(answers) ==
    LET ans(i) == _answer_from_resume(answers[i])
        idx == SelectSeq([i \in 1..Len(hr_faq_catalog) |-> i],
                         LAMBDA i : ans(i).some)
    IN  [j \in 1..Len(idx) |->
            Item(hr_faq_catalog[idx[j]].key, hr_faq_catalog[idx[j]].label,
                 hr_faq_catalog[idx[j]].full, ans(idx[j]).text)]

\* bot.py 142-145
save_faq_cache(topics) ==
    [exists |-> TRUE, valid |-> TRUE, shape |-> "dict", topics |-> topics]

\* bot.py 219-235: g holds the globals; the result holds the cache file and
\* the globals after the call
ensure_faq_ready(g, about, faq, answers) ==
    IF g.active # <<>> /\ DOMAIN g.cache # {}
    THEN [status |-> "ok", faq |-> faq, g |-> g]
    ELSE LET built == Built(answers)
         IN  IF built # <<>>
             THEN LET l == load_cache("bot", about, save_faq_cache(built))
                  IN  [status |-> l.status, faq |-> save_faq_cache(built),
                       g |-> [about |-> l.about, active |-> l.active,
                              cache |-> l.cache]]
             ELSE [status |-> "ok", faq |-> faq,
                   g |-> [g EXCEPT !.active = <<>>, !.cache = <<>>]]

\* TopicsOut without the classifier: every topic that had snippets is kept
TopicsOut_Unclassified(replies) ==
    LET idx == SelectSeq([i \in 1..Len(FAQ_TOPICS) |-> i],
                         LAMBDA i : replies[i].some)
    IN  [j \in 1..Len(idx) |->
            Item(FAQ_TOPICS[idx[j]][1], FAQ_TOPICS[idx[j]][2],
                 FAQ_TOPICS[idx[j]][3], WithCTA(Strip(replies[idx[j]].text)))]

\* ingestion.py 155-173: the records built from FAQ_TOPICS
TopicsOut(replies) ==
    LET reply(i) == Strip(replies[i].text)
        idx == SelectSeq([i \in 1..Len(FAQ_TOPICS) |-> i],
                         LAMBDA i : /\ replies[i].some
                                    /\ ~is_empty_message("ingestion", reply(i)))
    IN  [j \in 1..Len(idx) |->
            Item(FAQ_TOPICS[idx[j]][1], FAQ_TOPICS[idx[j]][2],
                 FAQ_TOPICS[idx[j]][3], WithCTA(reply(idx[j])))]

\* ingestion.py 143-178: the two files it writes
build_and_save_cache(aboutReply, replies) ==
    [about |-> [exists |-> TRUE, data |-> WithCTA(RStrip(aboutReply))],
     faq   |-> save_faq_cache(TopicsOut(replies))]

Globals == [about |-> ABOUT_TEXT, active |-> ACTIVE_FAQ_TOPICS, cache |-> FAQ_CACHE]

SetGlobals(g) ==
    /\ ABOUT_TEXT' = g.about
    /\ ACTIVE_FAQ_TOPICS' = g.active
    /\ FAQ_CACHE' = g.cache

NoAnswers  == [i \in 1..Len(hr_faq_catalog) |-> NoText]
AllAnswers ==
    {[i \in 1..Len(hr_faq_catalog) |-> IF i = 1 THEN a ELSE b] :
        a \in Completions, b \in LaterCompletions}
AllReplies ==
    {[i \in 1..Len(FAQ_TOPICS) |-> IF i = 1 THEN a ELSE b] :
        a \in Completions, b \in LaterCompletions}
AboutReplies == {Substantive \o Newline}

\* config.py 12: settings.owner_id, and the users who may send a message
owner_id == "owner"
Users == {"owner", "stranger"}

\* who sent the message the handler op answers; only /reindex looks at it
Sender(op) == IF op = "reindex" THEN owner_id ELSE "none"

\* load_cache(), then in bot.py ensure_faq_ready(), on files about and faq;
\* op names the handler that does it
Reload(op, about, faq) ==
    \E l \in {load_cache(server, about, faq)} :
        IF l.status = "raised" \/ server = "webhook"
        THEN /\ SetGlobals(l)
             /\ aboutFile' = about /\ faqFile' = faq
             /\ handled' = [op |-> op, status |-> l.status, fail |-> "none",
                            from_user |-> Sender(op)]
        ELSE \E answers \in (IF l.active # <<>> THEN {NoAnswers} ELSE AllAnswers) :
             \E e \in {ensure_faq_ready([about |-> l.about, active |-> l.active,
                                          cache |-> l.cache],
                                         about, faq, answers)} :
                /\ SetGlobals(e.g)
                /\ aboutFile' = about /\ faqFile' = e.faq
                /\ handled' = [op |-> op, status |-> e.status, fail |-> "none",
                               from_user |-> Sender(op)]

\* bot.py 652-656 (on_startup), webhook.py 458: the process starts, or starts
\* again, with whatever files are on the disk
Startup ==
    /\ Reload("startup", aboutFile, faqFile)
    /\ UNCHANGED <<server, indexFile, lastBuild, besidesServ>>

\* bot.py 596-599 (cb_faq_menu), webhook.py 422: the FAQ menu is opened
FaqMenu ==
    /\ handled.op # "none"
    /\ IF server = "bot" /\ ACTIVE_FAQ_TOPICS = <<>>
       THEN \E answers \in AllAnswers :
            \E e \in {ensure_faq_ready(Globals, aboutFile, faqFile, answers)} :
               /\ SetGlobals(e.g)
               /\ faqFile' = e.faq
               /\ handled' = [op |-> "faq_menu", status |-> e.status,
                             fail |-> "none", from_user |-> "none"]
       ELSE /\ handled' = [op |-> "faq_menu", status |-> "ok", fail |-> "none",
                           from_user |-> "none"]
            /\ UNCHANGED <<faqFile, ABOUT_TEXT, ACTIVE_FAQ_TOPICS, FAQ_CACHE>>
    /\ UNCHANGED <<server, aboutFile, indexFile, lastBuild, besidesServ>>

\* the chunks chunk_text yields for the resume at settings.resume_path
ResumeChunks == <<0, 4, 8>>

\* ingestion.py 194-200: the embeddings and the chunks main saves under
\* settings.index_path and settings.meta_path
BuiltIndex ==
    [exists |-> TRUE, embeddings |-> EmbedBatch(ResumeChunks),
     chunks |-> ResumeChunks]

\* rag.py 17-21: the index retrieve loads, data/rag_index, as an earlier
\* rag.ingest of other documents left it
RagIndex == ingest(<<DocNotes>>, 0, AbsentIndex).index

\* where ingestion.main may raise: before it writes anything (the extraction
\* of the text, the embeddings of the chunks), at the completion for the about
\* text (the index is written), at the completion for a topic (the about file
\* is written too), in json.dump (the file is opened for writing and left cut
\* short)
Failures == {"build", "about", "topic", "dump"}

\* Reindex without the test of line 515: whoever sends /reindex starts it
Reindex_NoOwnerCheck ==
    /\ handled.op # "none"
    /\ \E from_user \in Users :
       \/ \E fail \in Failures, aboutReply \in AboutReplies :
          \E files \in {build_and_save_cache(aboutReply, NoAnswers)} :
             /\ aboutFile' = IF fail \in {"build", "about"} THEN aboutFile
                           ELSE files.about
             /\ indexFile' = IF fail = "build" THEN indexFile ELSE BuiltIndex
             /\ faqFile' = IF fail = "dump"
                           THEN [files.faq EXCEPT !.valid = FALSE]
                           ELSE faqFile
             /\ handled' = [op |-> "reindex", status |-> "failed", fail |-> fail,
                            from_user |-> from_user]
             /\ UNCHANGED <<ABOUT_TEXT, ACTIVE_FAQ_TOPICS, FAQ_CACHE>>
       \/ \E aboutReply \in AboutReplies, replies \in AllReplies :
          \E files \in {build_and_save_cache(aboutReply, replies)} :
             /\ Reload("reindex", files.about, files.faq)
             /\ indexFile' = BuiltIndex
    /\ UNCHANGED <<server, lastBuild, besidesServ>>

\* bot.py 514-526, webhook.py 353-365: /reindex
Reindex ==
    /\ handled.op # "none"
    /\ \E from_user \in Users :
       IF from_user # owner_id
       THEN \* the refusal
            /\ handled' = [op |-> "reindex", status |-> "denied", fail |-> "none",
                           from_user |-> from_user]
            /\ UNCHANGED <<aboutFile, faqFile, indexFile, ABOUT_TEXT,
                           ACTIVE_FAQ_TOPICS, FAQ_CACHE>>
       ELSE \/ \* ingestion.main raises: the handler reports the error
               \E fail \in Failures, aboutReply \in AboutReplies :
               \E files \in {build_and_save_cache(aboutReply, NoAnswers)} :
                  /\ aboutFile' = IF fail \in {"build", "about"} THEN aboutFile
                                ELSE files.about
                  /\ indexFile' = IF fail = "build" THEN indexFile ELSE BuiltIndex
                  /\ faqFile' = IF fail = "dump"
                                THEN [files.faq EXCEPT !.valid = FALSE]
                                ELSE faqFile
                  /\ handled' = [op |-> "reindex", status |-> "failed",
                                 fail |-> fail, from_user |-> from_user]
                  /\ UNCHANGED <<ABOUT_TEXT, ACTIVE_FAQ_TOPICS, FAQ_CACHE>>
            \/ \* ingestion.main returns: the caches are loaded again
               \E aboutReply \in AboutReplies, replies \in AllReplies :
               \E files \in {build_and_save_cache(aboutReply, replies)} :
                  /\ Reload("reindex", files.about, files.faq)
                  /\ indexFile' = BuiltIndex
    /\ UNCHANGED <<server, lastBuild, besidesServ>>

InitServing ==
    /\ embFile = RagIndex.emb /\ chunksFile = RagIndex.chunks
    /\ metaFile = RagIndex.meta
    /\ call = NoCall /\ ret = NoRet /\ embedCalls = 0
    /\ AsstIdle /\ RebuildIdle /\ ChunkerIdle /\ ClsIdle /\ ToolsIdle /\ TextIdle
    /\ server \in Servers
    /\ aboutFile \in AboutFiles /\ faqFile \in FaqFiles
    /\ indexFile = NoIndexFile
    /\ ABOUT_TEXT = NoText /\ ACTIVE_FAQ_TOPICS = <<>> /\ FAQ_CACHE = <<>>
    /\ handled = NoHandled /\ lastBuild = NoBuilt

NextServing == Startup \/ FaqMenu \/ Reindex

SpecServing == InitServing /\ [][NextServing]_vars

(***************************************************************************)
(* The two cache builders on their own: build_and_save_cache as            *)
(* `python ingestion.py` runs it, and ensure_faq_ready as bot.py runs it   *)
(* after load_cache. lastBuild records what each topic got.                *)
(***************************************************************************)
\* ingestion.py 143-178
BuildAndSaveCache ==
    \E aboutReply \in AboutReplies, replies \in AllReplies \cup {NoAnswers} :
    \E files \in {build_and_save_cache(aboutReply, replies)} :
       /\ aboutFile' = files.about /\ faqFile' = files.faq
       /\ lastBuild' = [by |-> "ingestion", inputs |-> replies, ran |-> TRUE]
       /\ handled' = [op |-> "build", status |-> "ok", fail |-> "none",
                      from_user |-> "none"]
       /\ UNCHANGED <<server, indexFile, ABOUT_TEXT, ACTIVE_FAQ_TOPICS, FAQ_CACHE,
                      besidesServ>>

\* bot.py 653-656: load_cache, then ensure_faq_ready, which goes through the
\* catalog unless load_cache found topics (bot.py 221)
EnsureFaqReady ==
    \E l \in {load_cache("bot", aboutFile, faqFile)} :
       IF l.status = "raised"
       THEN /\ SetGlobals(l)
            /\ lastBuild' = [by |-> "bot", inputs |-> NoAnswers, ran |-> FALSE]
            /\ handled' = [op |-> "startup", status |-> "raised", fail |-> "none",
                           from_user |-> "none"]
            /\ UNCHANGED <<server, aboutFile, faqFile, indexFile, besidesServ>>
       ELSE \E answers \in AllAnswers \cup {NoAnswers} :
            \E e \in {ensure_faq_ready([about |-> l.about, active |-> l.active,
                                         cache |-> l.cache],
                                        aboutFile, faqFile, answers)} :
               /\ SetGlobals(e.g)
               /\ faqFile' = e.faq
               /\ lastBuild' = [by |-> "bot", inputs |-> answers,
                            ran |-> ~(l.active # <<>> /\ DOMAIN l.cache # {})]
               /\ handled' = [op |-> "startup", status |-> e.status,
                              fail |-> "none", from_user |-> "none"]
               /\ UNCHANGED <<server, aboutFile, indexFile, besidesServ>>

InitBuilder ==
    /\ embFile = RagIndex.emb /\ chunksFile = RagIndex.chunks
    /\ metaFile = RagIndex.meta
    /\ call = NoCall /\ ret = NoRet /\ embedCalls = 0
    /\ AsstIdle /\ RebuildIdle /\ ChunkerIdle /\ ClsIdle /\ ToolsIdle /\ TextIdle
    /\ server = "bot"
    /\ aboutFile \in AboutFiles /\ faqFile \in FaqFiles
    /\ indexFile = NoIndexFile
    /\ ABOUT_TEXT = NoText /\ ACTIVE_FAQ_TOPICS = <<>> /\ FAQ_CACHE = <<>>
    /\ handled = NoHandled /\ lastBuild = NoBuilt

NextBuilder == BuildAndSaveCache \/ EnsureFaqReady

SpecBuilder == InitBuilder /\ [][NextBuilder]_vars

(***************************************************************************)
(* The web tools the orchestrator calls: _web_search_impl and              *)
(* _web_fetch_impl of bot.py, webhook.py and assistant_runner.py.          *)
(* A URL is the sequence of its characters.                                *)
(***************************************************************************)
ToolCopies == {"bot", "webhook", "runner"}

\* bot.py 58-61, webhook.py 53-56, assistant_runner.py 11-14
BAD_HOSTS ==
    {<<"o", "s", "h", "i", "b", "o", "k", "-", "n", "e", "t", ".", "r", "u">>,
     <<"o", "b", "r", "a", "z", "o", "v", "a", "k", "a", ".", "r", "u">>,
     <<"g", "r", "a", "m", "o", "t", "a", ".", "r", "u">>,
     <<"r", "u", "s", ".", "s", "t", "a", "c", "k", "e", "x", "c", "h", "a", "n", "g", "e", ".", "c", "o", "m">>,
     <<"s", "t", "a", "c", "k", "e", "x", "c", "h", "a", "n", "g", "e", ".", "c", "o", "m">>}

\* bot.py 62, webhook.py 57; assistant_runner.py has no such list
BAD_URL_PARTS ==
    {<<"l", "o", "g", "i", "n">>,
     <<"s", "i", "g", "n", "i", "n">>,
     <<"a", "u", "t", "h">>,
     <<"c", "a", "l", "l", "b", "a", "c", "k">>,
     <<"a", "c", "c", "o", "u", "n", "t">>,
     <<"m", "i", "c", "r", "o", "s", "o", "f", "t", "o", "n", "l", "i", "n", "e">>,
     <<"o", "a", "u", "t", "h">>,
     <<"s", "s", "o">>}

CleanUrl == <<"h", "t", "t", "p", "s", ":", "/", "/", "a", ".", "i", "o",
              "/", "c", "v">>
HostUrl == <<"h", "t", "t", "p", "s", ":", "/", "/", "g", "r", "a", "m", "o",
             "t", "a", ".", "r", "u", "/", "a">>
SubHostUrl == <<"h", "t", "t", "p", "s", ":", "/", "/", "r", "u", "s", ".",
                "s", "t", "a", "c", "k", "e", "x", "c", "h", "a", "n", "g",
                "e", ".", "c", "o", "m", "/", "q">>
LoginUrl == <<"h", "t", "t", "p", "s", ":", "/", "/", "a", ".", "i", "o",
              "/", "L", "o", "g", "i", "n">>
OauthUrl == <<"h", "t", "t", "p", "s", ":", "/", "/", "a", ".", "i", "o",
              "/", "o", "a", "u", "t", "h", "2">>

\* the URLs a page can have, and the href values a search result can carry
Urls  == {CleanUrl, HostUrl, SubHostUrl, LoginUrl, OauthUrl}
Hrefs == Urls \cup {<<>>, <<" ">> \o CleanUrl}

\* the visible text of a fetched page
PageText == <<"p", "a", "g", "e">>

\* str.lower() on the characters of the URLs
LowerUrl(url) == [i \in 1..Len(url) |-> IF url[i] = "L" THEN "l" ELSE url[i]]

\* bot.py 353-355, webhook.py 176-180, assistant_runner.py 26-27: whether the
\* search drops the URL
Skipped(c, url) ==
    \/ \E bad \in BAD_HOSTS : Contains(bad, LowerUrl(url))
    \/ c # "runner" /\ \E part \in BAD_URL_PARTS : Contains(part, LowerUrl(url))

\* bot.py 348-357, assistant_runner.py 21-31: the loop over what the search
\* engine yields
RECURSIVE SearchLoop(_, _, _, _)
SearchLoop(c, found, max_results, out) ==
    IF found = <<>> THEN out
    ELSE LET url == IF c = "runner" THEN Head(found) ELSE Strip(Head(found))
         IN  IF url = <<>> \/ Skipped(c, url)
             THEN SearchLoop(c, Tail(found), max_results, out)
             ELSE IF Len(out) + 1 >= max_results
             THEN Append(out, [url |-> url])
             ELSE SearchLoop(c, Tail(found), max_results,
                             Append(out, [url |-> url]))

\* bot.py 344-360, webhook.py 167-185, assistant_runner.py 16-34: found is
\* what the search engine yielded, up to an exception if it raised one (the
\* exception is swallowed and the results so far are returned)
_web_search_impl(c, found, max_results) == SearchLoop(c, found, max_results, <<>>)

\* bot.py 365-378, webhook.py 188-203, assistant_runner.py 39-52: the text
\* returned for a page whose final URL is final.  In bot.py and webhook.py
\* resp.url.lower() is called on an httpx.URL, which has no such method: the
\* AttributeError is caught and the text is empty.
_web_fetch_impl(c, url, final, http_ok, max_chars) ==
    IF ~http_ok THEN <<>>
    ELSE IF c # "runner" THEN <<>>
    ELSE SubSeq(PageText, 1, Min({max_chars, Len(PageText)}))

\* bot.py 408-410, webhook.py 268-270: the substrings that make a query a
\* headcount question
HeadcountTriggers ==
    {<<"h", "e", "a", "d", "c", "o", "u", "n", "t">>,
     <<"e", "m", "p", "l", "o", "y", "e", "e">>,
     <<"e", "m", "p", "l", "o", "y", "e", "e", "s">>,
     <<"~ch", "~i", "~s", "~l", "~e", "~n", "~n", "~o", "~s", "~t">>,
     <<"~sh", "~t", "~a", "~t">>,
     <<"~r", "~a", "~z", "~m", "~e", "~r", " ", "~k", "~o", "~m", "~p",
       "~a", "~n">>,
     <<"~s", "~k", "~o", "~l", "~x", "~k", "~o", " ", "~ch", "~e", "~l",
       "~o", "~v", "~e", "~k">>}

\* bot.py 412, webhook.py 272: what follows the company in the new query
HeadcountTail ==
    <<" ", "e", "m", "p", "l", "o", "y", "e", "e", "s", " ", "h", "e", "a",
      "d", "c", "o", "u", "n", "t", " ", "~ch", "~i", "~s", "~l", "~e",
      "~n", "~n", "~o", "~s", "~t", "~x", " ", "~s", "~o", "~t", "~r",
      "~u", "~d", "~n", "~i", "~k", "~o", "~v", " ", "~sh", "~t", "~a",
      "~t", " ", "~r", "~a", "~z", "~m", "~e", "~r", " ", "~k", "~o", "~m",
      "~p", "~a", "~n", "~i", "~i">>

\* the company extract_current_company_from_local_index found, if any
Acme == <<"A", "c", "m", "e">>
Companies == {NoText, Text(Acme)}

\* the "query" argument of a web_search call: absent, or a text
Queries ==
    {NoText,
     Text(<<"h", "e", "a", "d", "c", "o", "u", "n", "t">>),
     Text(<<"A", "C", "M", "E", " ", "H", "e", "a", "d", "c", "o", "u",
            "n", "t">>),
     Text(<<" ", "s", "t", "a", "f", "f", " ">>),
     Text(<<" ", "h", "e", "a", "d", "c", "o", "u", "n", "t", "\n">>),
     Text(<<"~sh", "~t", "~a", "~t", " ", "a", "c", "m", "e">>)}

\* str.lower() on the letters of the queries and of the company
LowerLetter(c) ==
    CASE c = "A" -> "a"
      [] c = "C" -> "c"
      [] c = "E" -> "e"
      [] c = "H" -> "h"
      [] c = "M" -> "m"
      [] OTHER -> c
LowerText(t) == [i \in 1..Len(t) |-> LowerLetter(t[i])]

\* SearchQuery without the test that the company is not in the query yet
SearchQuery_AlwaysInjects(c, query, company) ==
    IF c = "runner" THEN query.text
    ELSE LET q == Strip(query.text)
         IN  IF /\ \E s \in HeadcountTriggers : Contains(s, LowerText(q))
                /\ company.some /\ company.text # <<>>
             THEN company.text \o HeadcountTail
             ELSE q

\* bot.py 406-413, webhook.py 266-273, assistant_runner.py 88-89: the query the
\* search runs with. assistant_runner.py extracts no company and passes the
\* argument on as it is.
SearchQuery(c, query, company) ==
    IF c = "runner" THEN query.text
    ELSE LET q == Strip(query.text)
             headcount_trigger ==
                 \E s \in HeadcountTriggers : Contains(s, LowerText(q))
         IN  IF /\ headcount_trigger
                /\ company.some /\ company.text # <<>>
                /\ ~Contains(LowerText(company.text), LowerText(q))
             THEN company.text \o HeadcountTail
             ELSE q

FoundLists == SeqsUpTo(Hrefs, MaxFound)

WebSearch ==
    /\ toolCall.op = "none"
    /\ \E c \in ToolCopies, found \in FoundLists, m \in 1..MaxResultsArg,
          raised \in BOOLEAN, query \in Queries :
       \E company \in (IF c = "runner" THEN {NoText} ELSE Companies) :
         /\ toolCall' = [NoToolCall EXCEPT !.op = "web_search", !.copy = c,
                                           !.found = found, !.max_results = m,
                                           !.raised = raised, !.query = query,
                                           !.company = company]
         /\ toolRet' = [NoToolRet EXCEPT
                           !.results = _web_search_impl(c, found, m),
                           !.searched = SearchQuery(c, query, company)]
    /\ UNCHANGED besidesTools

WebFetch ==
    /\ toolCall.op = "none"
    /\ \E c \in ToolCopies, url \in Urls, final \in Urls, ok \in BOOLEAN,
          m \in 1..MaxCharsArg :
         /\ toolCall' = [NoToolCall EXCEPT !.op = "web_fetch", !.copy = c,
                                           !.url = url, !.final = final,
                                           !.http_ok = ok, !.max_chars = m]
         /\ toolRet' = [NoToolRet EXCEPT
                           !.text = _web_fetch_impl(c, url, final, ok, m)]
    /\ UNCHANGED besidesTools

\* the orchestrator takes the output
ToolReturn ==
    /\ toolCall.op # "none"
    /\ toolCall' = NoToolCall /\ toolRet' = NoToolRet
    /\ UNCHANGED besidesTools

InitTools ==
    /\ embFile = NoFile /\ chunksFile = NoFile /\ metaFile = NoMeta
    /\ call = NoCall /\ ret = NoRet /\ embedCalls = 0
    /\ AsstIdle /\ OthersIdle

NextTools == WebSearch \/ WebFetch \/ ToolReturn

SpecTools == InitTools /\ [][NextTools]_vars

(***************************************************************************)
(* The free-text handlers: handle_free_text of bot.py and handle_text of   *)
(* webhook.py, together with the answer_via_assistant call they await.     *)
(***************************************************************************)
TextCopies == {"bot", "webhook"}

\* message.text: blank, or a question
Questions == {<<" ">>, <<"q">>}

\* bot.py 562, webhook.py 397: the fallback stops at the third link
MaxLinks == 3

\* bot.py 554-562, webhook.py 389-397: the loop over what the search yields
RECURSIVE FallbackLoop(_, _, _)
FallbackLoop(c, found, links) ==
    IF found = <<>> THEN links
    ELSE LET url == Head(found)
         IN  IF url = <<>> \/ Skipped(c, url)
             THEN FallbackLoop(c, Tail(found), links)
             ELSE IF Len(links) + 1 >= MaxLinks
             THEN Append(links, url)
             ELSE FallbackLoop(c, Tail(found), Append(links, url))

Reply(kind, text, links) == [kind |-> kind, text |-> text, links |-> links]

\* bot.py 529-532, webhook.py 368: the text is stripped; bot.py answers a blank
\* message at once, webhook.py has no such branch
ReceiveText ==
    /\ asked.pc = "none"
    /\ \E c \in TextCopies, q \in Questions :
         IF c = "bot" /\ Strip(q) = <<>>
         THEN /\ sent' = Append(sent, Reply("send_text", <<>>, <<>>))
              /\ asked' = [NoAsked EXCEPT !.pc = "done", !.copy = c]
         ELSE /\ asked' = [NoAsked EXCEPT !.pc = "relevance", !.copy = c,
                                          !.question = Strip(q)]
              /\ UNCHANGED sent
    /\ UNCHANGED <<sessions, asstVars, besidesText>>

\* bot.py 535-539, webhook.py 371-377: is_question_relevant is a rule or the
\* verdict of a completion (True when the completion raises)
CheckRelevance ==
    /\ asked.pc = "relevance"
    /\ \E relevant \in BOOLEAN :
         IF relevant
         THEN asked' = [asked EXCEPT !.pc = "assistant"] /\ UNCHANGED sent
         ELSE /\ sent' = Append(sent, Reply("not_relevant", <<>>, <<>>))
              /\ asked' = [asked EXCEPT !.pc = "done"]
    /\ UNCHANGED <<sessions, asstVars, besidesText>>

\* bot.py 542, webhook.py 380: the handler's own module is the one called
CallAssistant ==
    /\ asked.pc = "assistant"
    /\ StartRun
    /\ copy' = asked.copy

\* bot.py 543-548, webhook.py 381-383: what answer_via_assistant returned
TakeAnswer ==
    /\ asked.pc = "assistant" /\ pc \in Terminal
    /\ IF result.some /\ ~is_empty_message(asked.copy, result.text)
       THEN /\ sent' = Append(sent, Reply("answer", result.text, <<>>))
            /\ asked' = [asked EXCEPT !.pc = "done"]
       ELSE /\ asked' = [asked EXCEPT !.pc = "fallback"]
            /\ UNCHANGED sent
    /\ UNCHANGED <<sessions, asstVars, besidesText>>

\* bot.py 551-574, webhook.py 386-409: found is what the search yielded, up to
\* an exception if it raised one (the exception is swallowed)
WebFallback ==
    /\ asked.pc = "fallback"
    /\ \E found \in FoundLists :
         \E links \in {FallbackLoop(asked.copy, found, <<>>)} :
            /\ sent' = Append(sent, IF links # <<>>
                                    THEN Reply("sources", <<>>, links)
                                    ELSE Reply("contact", <<>>, <<>>))
            /\ asked' = [asked EXCEPT !.pc = "done", !.links = links]
    /\ UNCHANGED <<sessions, asstVars, besidesText>>

InitText ==
    /\ \E idx \in ServedIndexes :
         embFile = idx.emb /\ chunksFile = idx.chunks /\ metaFile = idx.meta
    /\ call = NoCall /\ ret = NoRet /\ embedCalls = 0
    /\ AsstIdle /\ OthersIdle

NextText ==
    \/ ReceiveText \/ CheckRelevance \/ CallAssistant
    \/ ExtractCompany \/ Poll \/ KeepPolling \/ BeginToolCalls
    \/ HandleToolCall \/ SubmitToolOutputs \/ ListMessages \/ ReturnNone
    \/ TakeAnswer \/ WebFallback

SpecText == InitText /\ [][NextText]_vars

\* the event loop resumes the handler after every await
FairSpecText == SpecText /\ WF_vars(NextText)

(***************************************************************************)
(* Two text messages in one process: each handler is suspended at its      *)
(* awaits (the relevance completion, answer_via_assistant, the search) and *)
(* the other one may run in between. answer_via_assistant stands here for  *)
(* what it returns.                                                        *)
(***************************************************************************)
\* what answer_via_assistant may return: None, an answer, a non-answer
AssistantResults == {NoResult, Text(<<"a">>), Text(NetInformacii)}

\* what the search of the fallback may yield
FallbackFinds == {<<>>, <<CleanUrl>>, <<LoginUrl>>, <<HostUrl, CleanUrl>>}

\* bot.py 528-574, webhook.py 367-409 run from the first line to the last with
\* nothing in between: the message sent for text, given the relevance verdict,
\* the value answer_via_assistant returned and what the search yielded
HandledAlone(c, text, relevant, res, found) ==
    IF c = "bot" /\ Strip(text) = <<>> THEN Reply("send_text", <<>>, <<>>)
    ELSE IF ~relevant THEN Reply("not_relevant", <<>>, <<>>)
    ELSE IF res.some /\ ~is_empty_message(c, res.text)
    THEN Reply("answer", res.text, <<>>)
    ELSE LET links == FallbackLoop(c, found, <<>>)
         IN  IF links # <<>> THEN Reply("sources", <<>>, links)
             ELSE Reply("contact", <<>>, <<>>)

\* what a handler leaves alone: the other chat and everything outside
OnlyChat(s, new) ==
    /\ sessions' = [sessions EXCEPT ![s] = new]
    /\ UNCHANGED <<asked, sent, asstVars, besidesText>>

\* FallbackOf that also keeps the message it sent in FAQ_CACHE
FallbackOf_Cached(s) ==
    /\ sessions[s].pc = "fallback"
    /\ \E found \in FallbackFinds :
         \E links \in {FallbackLoop(server, found, <<>>)} :
            /\ sessions' = [sessions EXCEPT ![s] =
                   [@ EXCEPT !.pc = "done", !.found = found,
                             !.reply = IF links # <<>>
                                       THEN Reply("sources", <<>>, links)
                                       ELSE Reply("contact", <<>>, <<>>)]]
            /\ FAQ_CACHE' = Put(FAQ_CACHE, "last", <<"c">>)
    /\ UNCHANGED <<asked, sent, asstVars, ragVars, rebuildVars, chunkerVars,
                   clsVars, toolVars>>
    /\ UNCHANGED <<server, aboutFile, faqFile, indexFile, ABOUT_TEXT,
                   ACTIVE_FAQ_TOPICS, handled, lastBuild>>

\* bot.py 529-532, webhook.py 368
ReceiveOf(s) ==
    /\ sessions[s].pc = "none"
    /\ \E q \in Questions :
         IF server = "bot" /\ Strip(q) = <<>>
         THEN OnlyChat(s, [sessions[s] EXCEPT
                              !.pc = "done", !.text = q,
                              !.reply = Reply("send_text", <<>>, <<>>)])
         ELSE OnlyChat(s, [sessions[s] EXCEPT !.pc = "relevance", !.text = q])

\* bot.py 535-539, webhook.py 371-377
RelevanceOf(s) ==
    /\ sessions[s].pc = "relevance"
    /\ \E relevant \in BOOLEAN :
         IF relevant
         THEN OnlyChat(s, [sessions[s] EXCEPT !.pc = "assistant",
                                              !.relevant = TRUE])
         ELSE OnlyChat(s, [sessions[s] EXCEPT
                              !.pc = "done",
                              !.reply = Reply("not_relevant", <<>>, <<>>)])

\* bot.py 542-548, webhook.py 380-383
AnswerOf(s) ==
    /\ sessions[s].pc = "assistant"
    /\ \E res \in AssistantResults :
         IF res.some /\ ~is_empty_message(server, res.text)
         THEN OnlyChat(s, [sessions[s] EXCEPT
                              !.pc = "done", !.result = res,
                              !.reply = Reply("answer", res.text, <<>>)])
         ELSE OnlyChat(s, [sessions[s] EXCEPT !.pc = "fallback", !.result = res])

\* bot.py 551-574, webhook.py 386-409
FallbackOf(s) ==
    /\ sessions[s].pc = "fallback"
    /\ \E found \in FallbackFinds :
         \E links \in {FallbackLoop(server, found, <<>>)} :
            OnlyChat(s, [sessions[s] EXCEPT
                            !.pc = "done", !.found = found,
                            !.reply = IF links # <<>>
                                      THEN Reply("sources", <<>>, links)
                                      ELSE Reply("contact", <<>>, <<>>)])

\* the process has started: the globals hold what load_cache found
InitSessions ==
    /\ embFile = RagIndex.emb /\ chunksFile = RagIndex.chunks
    /\ metaFile = RagIndex.meta
    /\ call = NoCall /\ ret = NoRet /\ embedCalls = 0
    /\ AsstIdle /\ RebuildIdle /\ ChunkerIdle /\ ClsIdle /\ ToolsIdle /\ TextIdle
    /\ server \in Servers
    /\ aboutFile \in AboutFiles
    /\ faqFile \in {NoFaqFile,
                    save_faq_cache(<<Item("who", "label", "full", OpytLet)>>)}
    /\ indexFile \in {NoIndexFile, BuiltIndex}
    /\ \E l \in {load_cache(server, aboutFile, faqFile)} :
          /\ ABOUT_TEXT = l.about
          /\ ACTIVE_FAQ_TOPICS = l.active
          /\ FAQ_CACHE = l.cache
    /\ handled = [op |-> "startup", status |-> "ok", fail |-> "none",
                  from_user |-> "none"]
    /\ lastBuild = NoBuilt

NextSessions ==
    \E s \in Chats : ReceiveOf(s) \/ RelevanceOf(s) \/ AnswerOf(s) \/ FallbackOf(s)

SpecSessions == InitSessions /\ [][NextSessions]_vars

(***************************************************************************)
(* Properties of answer_via_assistant (checked under SpecAssistant)        *)
(***************************************************************************)
\* the position of the most recent assistant message of a listing (0: none)
LatestAssistant(data) ==
    IF \E i \in 1..Len(data) : data[i].role = "assistant"
    THEN CHOOSE i \in 1..Len(data) :
            /\ data[i].role = "assistant"
            /\ \A j \in 1..(i - 1) : data[j].role # "assistant"
    ELSE 0

\* the characters of a sequence that are not whitespace
Visible(s) == SelectSeq(s, LAMBDA c : ~IsSpace(c))

\* the visible characters of the text parts of a message content, in order
RECURSIVE VisibleText(_)
VisibleText(content) ==
    IF content = <<>> THEN <<>>
    ELSE (IF Head(content).type = "text" THEN Visible(Head(content).value) ELSE <<>>)
         \o VisibleText(Tail(content))

Waiting == pc = "poll" \/ (pc = "dispatch" /\ run_status # "requires_action")

\* C1: submit_tool_outputs is called exactly once per poll that observed
\* "requires_action" and never for "queued" / "in_progress"; when the observed
\* statuses end in "completed" the calls are equal in number, the messages are
\* listed once and, the listing obtained, the call returns the text of the final
\* assistant message.
C1_OneSubmitPerRequiresAction ==
    /\ Waiting => nSubmit = nReq
    /\ pc \in {"tools", "submit"} => nSubmit + 1 = nReq
    /\ (pc \in Terminal /\ run_status = "completed")
       => /\ nSubmit = nReq
          /\ nList = 1
          /\ listing.ok
             => /\ pc = "returned"
                /\ (LatestAssistant(listing.data) # 0
                    /\ VisibleText(listing.data[LatestAssistant(listing.data)].content) # <<>>)
                   => result.some

C1_Witness ==
    /\ pc = "returned" /\ run_status = "completed"
    /\ nReq = 2 /\ nSubmit = 2 /\ result.some

\* C2: the polling loop is bounded -- whatever the provider answers, the call
\* eventually stops (and returns None when no terminal status was ever seen).
C2_PollingBounded == <>(pc \in Terminal)

\* C3: no exception raised inside answer_via_assistant reaches the caller, in
\* any copy of the orchestrator.
C3_NoExceptionEscapes == pc # "raised"

\* C4: a poll that observes "requires_action" with n pending calls passes one
\* batch of exactly n outputs, the j-th carrying the j-th call's id, whatever the
\* names and argument payloads are: the handling of the pending calls never ends
\* before every call has its output.
C4_EveryPendingCallAnswered ==
    /\ pc = "submit"
       => /\ Len(outputs) = Len(tool_calls)
          /\ \A j \in 1..Len(tool_calls) : outputs[j].tool_call_id = tool_calls[j].id
    /\ (pc \in Terminal /\ run_status = "requires_action")
       => callIdx = Len(tool_calls)

UnknownTool(tc) == tc.name \notin {"web_search", "web_fetch"}

\* C5: a pending call naming an unknown tool is answered {"error": "unknown tool"}
\* under its own id; handling it never ends the run, the loop goes on to the
\* other calls, the batch passed to submit_tool_outputs holds an output for every
\* call, and after the submission polling resumes.
C5_UnknownToolAnswered ==
    /\ [](\A j \in 1..Len(outputs) :
            (j <= Len(tool_calls) /\ UnknownTool(tool_calls[j]))
            => outputs[j] = [tool_call_id |-> tool_calls[j].id, output |-> "unknown_tool"])
    /\ [](pc = "submit" => Len(outputs) = Len(tool_calls))
    /\ [][ /\ (pc = "tools" /\ UnknownTool(tool_calls[callIdx + 1]))
              => /\ pc' \in {"tools", "submit"}
                 /\ Len(outputs') = Len(outputs) + 1
                 /\ callIdx' = callIdx + 1
           /\ (pc = "submit" /\ pc' \notin Terminal) => pc' = "poll" ]_vars

C5_Witness ==
    /\ pc = "submit" /\ Len(tool_calls) = 2 /\ Len(outputs) = 2
    /\ tool_calls[1].name = "other" /\ tool_calls[1].args = "non_object"
    /\ tool_calls[2].name = "web_search"
    /\ outputs[1].output = "unknown_tool" /\ outputs[2].output = "search_results"

OtherStatus ==
    run_status \notin {"created", "queued", "in_progress", "requires_action", "completed"}

\* C6: once a poll has observed a status other than queued, in_progress,
\* requires_action or completed, the call returns None at once: it does not
\* raise, submits no tool outputs and does not list the messages.
C6_OtherStatusReturnsNone ==
    /\ [](OtherStatus => pc \in {"dispatch", "returned"})
    /\ [][OtherStatus
          => /\ pc' = "returned" /\ ~result'.some
             /\ nSubmit' = nSubmit /\ nList' = nList /\ nList = 0]_vars

C6_Witness ==
    /\ pc = "returned" /\ run_status = "expired"
    /\ copy = "runner" /\ nReq = 1 /\ nSubmit = 1 /\ ~result.some /\ nList = 0

\* C7: on "completed" the value returned is the text of the most recent
\* assistant message of the listing -- its text segments in order, trimmed --
\* whatever more recent messages of other roles precede it; it is None when the
\* listing holds no assistant message or that text is blank.
C7_LatestAssistantText ==
    listing.ok
    => /\ pc = "returned" /\ run_status = "completed"
       /\ LET n == LatestAssistant(listing.data)
          IN  IF n = 0 THEN ~result.some
              ELSE LET shown == VisibleText(listing.data[n].content)
                   IN  IF shown = <<>> THEN ~result.some
                       ELSE /\ result.some
                            /\ Visible(result.text) = shown
                            /\ ~IsSpace(result.text[1])
                            /\ ~IsSpace(result.text[Len(result.text)])

C7_Witness ==
    /\ listing.ok /\ Len(listing.data) = 2
    /\ listing.data[1].role = "user" /\ listing.data[2].role = "assistant"
    /\ Len(listing.data[2].content) = 2
    /\ result.some /\ result.text = <<"a", " ", "\n", " ", "b">>

(***************************************************************************)
(* Properties of the index operations (checked under SpecRag)              *)
(***************************************************************************)
StoredN == IF embFile.exists /\ chunksFile.exists /\ metaFile.exists
           THEN Len(embFile.data) ELSE 0

Retrieved == call.op = "retrieve" /\ call.embedOK

Descending(hits) ==
    \A a \in 1..Len(hits), b \in 1..Len(hits) : a < b => hits[a].score >= hits[b].score

\* the positions of the index whose chunk a hit reports; the id alone does not
\* tell two files of one name apart, the source path with it does
HitPos(h) == {i \in 1..StoredN : /\ chunksFile.data[i].id = h.id
                                 /\ chunksFile.data[i].source = h.source}

\* every hit is one stored chunk with its dot product against the query as score
HitsAreStored(hits) ==
    /\ \A n \in 1..Len(hits) :
         /\ Cardinality(HitPos(hits[n])) = 1
         /\ \A i \in HitPos(hits[n]) :
              /\ hits[n].score = call.q[1] * embFile.data[i][1] + call.q[2] * embFile.data[i][2]
              /\ hits[n].text = chunksFile.data[i].text
    /\ \A a \in 1..Len(hits), b \in 1..Len(hits) :
         a # b => <<hits[a].id, hits[a].source>> # <<hits[b].id, hits[b].source>>

\* no stored chunk left out of the hits scores strictly higher than a hit
NoneBetterLeftOut(hits) ==
    \A i \in 1..StoredN :
        (\A n \in 1..Len(hits) : i \notin HitPos(hits[n]))
        => \A n \in 1..Len(hits) :
             call.q[1] * embFile.data[i][1] + call.q[2] * embFile.data[i][2] <= hits[n].score

\* C8: on a non-empty index of N vectors, for 1 <= top_k <= N, retrieve returns
\* exactly top_k hits, they are stored chunks scored by their dot product with the
\* query, no chunk outside the result scores strictly higher than one inside it,
\* and the hits are ordered by descending score.
C8_TopKCorrect ==
    (Retrieved /\ StoredN > 0 /\ call.k <= StoredN)
    => /\ ret.status = "ok"
       /\ Len(ret.hits) = call.k
       /\ HitsAreStored(ret.hits)
       /\ NoneBetterLeftOut(ret.hits)
       /\ Descending(ret.hits)

C8_Witness ==
    /\ Retrieved /\ StoredN = 6 /\ call.k = 3 /\ ret.status = "ok"
    /\ Len(ret.hits) = 3
    /\ ret.hits[1].score > ret.hits[3].score

\* C9: on an index that holds fewer chunks than top_k (0 < N < top_k, e.g. three
\* chunks and the default top_k = 6) retrieve does not raise and returns all N
\* chunks ranked by descending score, the best-matching chunk first.
C9_SmallIndexRanked ==
    (Retrieved /\ StoredN > 0 /\ StoredN < call.k)
    => /\ ret.status = "ok"
       /\ Len(ret.hits) = StoredN
       /\ HitsAreStored(ret.hits)
       /\ Descending(ret.hits)

\* the sources of an ingest that yields no chunk: none, missing ones, empty ones
ZeroChunkSources(sources) ==
    \A i \in 1..Len(sources) :
        \/ ~sources[i].exists
        \/ /\ sources[i].readable
           /\ \A p \in 1..Len(sources[i].pages) : sources[i].pages[p] = <<>>

\* C10: an ingest that produces zero chunks persists an explicit empty index and
\* does not fail; retrieve on a zero-chunk index (a persisted empty index, or no
\* index files) returns the empty list, does not raise and does not call the
\* embedding provider.
C10_EmptyIndexSafe ==
    /\ (call.op = "ingest" /\ ZeroChunkSources(call.sources))
       => /\ ret.status = "ok" /\ ret.stats.chunks = 0
          /\ embFile.exists /\ chunksFile.exists /\ metaFile.exists
          /\ embFile.data = <<>> /\ chunksFile.data = <<>>
          /\ metaFile.data.size = 0
    /\ (call.op = "retrieve" /\ StoredN = 0)
       => /\ ret.status = "ok" /\ ret.hits = <<>> /\ embedCalls = 0

C10_Witness ==
    /\ call.op = "retrieve" /\ ~call.embedOK
    /\ embFile.exists /\ chunksFile.exists /\ metaFile.exists /\ metaFile.data.size = 0
    /\ ret.status = "ok" /\ ret.hits = <<>>

\* the number of embeddings.create calls ingest needs for these sources
BatchesOf(sources) ==
    LET got == CollectChunks(sources, 1)
    IN  IF got.raised THEN 0 ELSE Len(_batched(TextsOf(got.chunks), BatchSize))

\* the embedding provider failed on one of the batches of the last ingest
ProviderFailed(c) == c.op = "ingest" /\ c.failAt \in 1..BatchesOf(c.sources)

\* C12: the build is all-or-nothing with respect to the embedding provider: if
\* the provider fails on any batch of an ingest, the ingest raises and the
\* three index files are exactly what they were before the ingest started.
C12_EmbeddingFailureKeepsIndex ==
    [][ (call.op = "none" /\ ProviderFailed(call'))
            => /\ ret'.status = "raised"
               /\ embFile' = embFile /\ chunksFile' = chunksFile
               /\ metaFile' = metaFile ]_vars

\* the provider failed on a batch after the first while a non-empty index was
\* on disk
C12_Witness ==
    /\ ProviderFailed(call) /\ call.failAt >= 2
    /\ ret.status = "raised" /\ embedCalls = call.failAt
    /\ StoredN > 0

\* a source that does not exist, or a PDF that cannot be read
Unusable(doc) == ~doc.exists \/ (doc.suffix = ".pdf" /\ ~doc.readable)

\* C13: a missing or unreadable source is fatal to the build: an ingest that
\* was given one reports the failure (raises) instead of persisting an index
\* built from the remaining sources.
C13_UnusableSourceFatal ==
    (call.op = "ingest" /\ \E i \in 1..Len(call.sources) : Unusable(call.sources[i]))
        => ret.status = "raised"

(***************************************************************************)
(* Properties of a build seen from a second process (SpecRebuild)          *)
(***************************************************************************)
\* what _load_index returned is a parallel index: as many vectors as chunk
\* records as meta.size, the i-th vector being the embedding of the i-th chunk
Parallel(ld) ==
    /\ Len(ld.chunks) = Len(ld.embs)
    /\ Len(ld.embs) = ld.meta.size
    /\ \A i \in 1..Len(ld.chunks) :
          i <= Len(ld.embs) => ld.embs[i] = EmbedOf(ld.chunks[i].text)

\* C11: after every completed ingest, and in every index state that
\* _load_index can observe, the number of chunk records equals the number of
\* stored vectors equals meta.size, and the i-th vector is the embedding of the
\* i-th chunk record (also when the texts were embedded in several batches).
C11_IndexParallel ==
    /\ Parallel(loaded)
    /\ (call.op = "ingest" /\ ret.status = "ok") => Parallel(_load_index(OnDisk))

\* what _load_index returns on an index that one ingest wrote completely, or
\* on no index at all
CompleteLoads ==
    {_load_index(AbsentIndex)} \cup
    {_load_index(ingest(srcs, 0, AbsentIndex).index) : srcs \in SourceLists}

\* C21: whatever a reader loads while builds run beside it is the complete
\* index of one build (the old one or the new one), never a mix of the files
\* of two builds.
C21_NeverHalfWritten == loaded \in CompleteLoads

(***************************************************************************)
(* Properties of the chunkers (checked under SpecChunker)                  *)
(***************************************************************************)
Splitting == chunkCall.op = "_split_into_chunks"
Tokenizing == chunkCall.op = "chunk_text"

\* the chunks of the last _split_into_chunks call before the overlap was added
Base == BaseChunks(chunkCall.text, chunkCall.size)

\* the i-th chunk is one unit (a paragraph or a sentence) longer than max_chars
Oversized(i) ==
    /\ Len(Base[i]) > chunkCall.size
    /\ Base[i] \in Range(Units(Paras(chunkCall.text), chunkCall.size))

\* C14: for every text, max_size > 0 and overlap >= 0, every returned chunk has
\* len(chunk) <= max_size + overlap, unless it consists of a single sentence or
\* paragraph that is itself longer than max_size.
C14_ChunkSizeBound ==
    Splitting =>
        \A i \in 1..Len(chunkRet) :
            \/ Len(chunkRet[i]) <= chunkCall.size + chunkCall.overlap
            \/ Oversized(i)

IsPrefix(p, t) == Len(p) <= Len(t) /\ SubSeq(t, 1, Len(p)) = p
IsSuffix(p, t) == Len(p) <= Len(t) /\ SubSeq(t, Len(t) - Len(p) + 1, Len(t)) = p

\* C15: chunk 0 is returned unmodified, and for every i > 0 the last `overlap`
\* characters of returned chunk i-1 (all of it when it is shorter) are, up to
\* whitespace, the beginning of returned chunk i.
C15_OverlapProperty ==
    (Splitting /\ chunkRet # <<>>) =>
        /\ chunkRet[1] = Base[1]
        /\ \A i \in 2..Len(chunkRet) :
              IsPrefix(Visible(LastN(chunkRet[i - 1], chunkCall.overlap)),
                       Visible(chunkRet[i]))

\* chunk_text: the start of every window, in order
RECURSIVE Starts(_, _, _)
Starts(n, start, step) ==
    IF start >= n THEN <<>> ELSE <<start>> \o Starts(n, start + step, step)

\* chunk_text: the visible characters of the window at `start` that follow its
\* overlap prefix (the tokens it shares with the window before it)
FreshPart(toks, start, size, step) ==
    LET whole  == Visible(WindowChunk(toks, start, size))
        shared == IF start = 0 THEN 0
                  ELSE Max({0, Min({start - step + size, Len(toks)}) - start})
        prefix == Visible(Decode(SubSeq(toks, start + 1, start + shared)))
    IN  SubSeq(whole, Len(prefix) + 1, Len(whole))

\* C16: for every non-empty text the returned chunks, with the injected overlap
\* prefixes removed and concatenated in order, contain every non-whitespace
\* character of the text exactly once and in the original order.
C16_Coverage ==
    /\ (Splitting /\ chunkCall.text # <<>>) =>
          /\ Len(chunkRet) = Len(Base)
          /\ \A i \in 1..Len(chunkRet) : IsSuffix(Base[i], chunkRet[i])
          /\ Visible(Flat(Base)) = Visible(chunkCall.text)
    /\ (Tokenizing /\ chunkCall.text # <<>>) =>
          LET toks == Encode(chunkCall.text)
              step == Step(chunkCall.size, chunkCall.overlap)
              at   == Starts(Len(toks), 0, step)
              wins == [k \in 1..Len(at) |-> WindowChunk(toks, at[k], chunkCall.size)]
          IN  /\ chunkRet = SelectSeq(wins, LAMBDA c : c # <<>>)
              /\ Flat([k \in 1..Len(at) |->
                          FreshPart(toks, at[k], chunkCall.size, step)])
                     = Visible(chunkCall.text)

\* C17: a chunker returns no chunk for an empty or whitespace-only text, and
\* every chunk it returns for any text has a character that is not whitespace.
C17_NoEmptyChunks ==
    chunkCall.op # "none" =>
        /\ Visible(chunkCall.text) = <<>> => chunkRet = <<>>
        /\ \A i \in 1..Len(chunkRet) : Visible(chunkRet[i]) # <<>>

\* a whitespace-only text of several characters was chunked by each chunker
C17_Witness ==
    /\ chunkCall.op # "none"
    /\ Len(chunkCall.text) >= 2 /\ Visible(chunkCall.text) = <<>>
    /\ chunkRet = <<>>

(***************************************************************************)
(* Properties of the non-answer classifier (checked under SpecClassifier)  *)
(***************************************************************************)
\* the phrases that say that the information is absent
AbsencePhrases ==
    {NetInformacii, NotFoundInContext, NoAnswerSentinel, NetKonkretnoj,
     VRezyumeNet, NeNashlos, NeNajdeno, DannyhNet, NeSoderzhitsya,
     KontekstNeNajden, RelevantnyhFragmentov, KontekstIzRezyume}

\* C18: the classifier returns true for an empty or whitespace-only text and
\* for every absence phrase (among them "net informacii", "not found in
\* context" and the sentinel "NO_ANSWER"), false for a substantive answer such
\* as "The candidate has 20 years of experience in AI.", and every copy of the
\* classifier gives the same verdict on the same text.
C18_ClassifierVerdicts ==
    clsCall.op # "none" =>
        /\ Visible(clsCall.text) = <<>> => verdict
        /\ clsCall.text \in AbsencePhrases => verdict
        /\ clsCall.text \in {Substantive, OpytLet} => ~verdict
        /\ \A c \in ClsCopies : is_empty_message(c, clsCall.text) = verdict

(***************************************************************************)
(* Properties of the About/FAQ cache (checked under SpecServing)           *)
(***************************************************************************)
\* the keys of the active topics
ActiveKeys == {ACTIVE_FAQ_TOPICS[i][1] : i \in 1..Len(ACTIVE_FAQ_TOPICS)}

\* C19: in every state of the serving process, whatever handlers ran before
\* (startup with load_cache and ensure_faq_ready, the FAQ menu, a /reindex
\* that succeeded, failed or was denied), the keys of ACTIVE_FAQ_TOPICS are
\* exactly the keys of FAQ_CACHE, and every cached reply is non-empty and is
\* not classified as a non-answer by the is_empty_message of that process.
C19_ActiveTopicsCached ==
    /\ ActiveKeys = DOMAIN FAQ_CACHE
    /\ \A k \in DOMAIN FAQ_CACHE :
          /\ FAQ_CACHE[k] # <<>>
          /\ ~is_empty_message(server, FAQ_CACHE[k])

\* two topics are active, loaded from a file that also held a record the
\* classifier rejects or after one, and a later /reindex failed in json.dump
\* and left the cache file cut short
C19_Witness ==
    /\ handled = [op |-> "reindex", status |-> "failed", fail |-> "dump",
                  from_user |-> owner_id]
    /\ ~faqFile.valid
    /\ Len(ACTIVE_FAQ_TOPICS) = 2
    /\ Cardinality(DOMAIN FAQ_CACHE) = 2

\* the documents build_and_save_cache can persist when the completion of one
\* topic gave nothing
SurvivingSets ==
    {save_faq_cache(TopicsOut(r)) : r \in AllReplies \cup {NoAnswers}}

\* C23: when the provider fails on one catalog topic during the generation of
\* the FAQ cache, the build does not abort: the handler does not end in
\* failure and the cache file holds the set built from the other topics.
C23_TopicFailureSkipped ==
    [][(handled'.op = "reindex" /\ handled'.fail = "topic") =>
          /\ handled'.status # "failed"
          /\ faqFile' \in SurvivingSets]_vars

\* C24: after a /reindex that succeeded, the index retrieve loads is the one
\* ingestion.main built from the current resume in that run (its chunks and
\* their embeddings), so that the FAQ cache of the run is computed from it.
C24_ReindexServesNewIndex ==
    [][(handled'.op = "reindex" /\ handled'.status = "ok") =>
          /\ indexFile' = BuiltIndex
          /\ TextsOf(_load_index(OnDisk').chunks) = indexFile'.chunks
          /\ _load_index(OnDisk').embs = indexFile'.embeddings]_vars

(***************************************************************************)
(* Properties of the cache builders (checked under SpecBuilder)            *)
(***************************************************************************)
\* the catalog of the builder that ran last: key, label and question
Catalog ==
    IF lastBuild.by = "ingestion"
    THEN [i \in 1..Len(FAQ_TOPICS) |->
            [key |-> FAQ_TOPICS[i][1], label |-> FAQ_TOPICS[i][2],
             full |-> FAQ_TOPICS[i][3]]]
    ELSE hr_faq_catalog

\* the builder's verdict on a reply: its module's classifier and, in bot.py,
\* the sentinel it is told to look for
NonAnswer(t) ==
    \/ is_empty_message(lastBuild.by, t)
    \/ /\ lastBuild.by = "bot"
       /\ Contains(NoAnswerSentinel, [i \in 1..Len(t) |-> Upper(t[i])])

\* the catalog positions whose topic had snippets and a reply that is not
\* classified as a non-answer
Surviving ==
    SelectSeq([i \in 1..Len(Catalog) |-> i],
              LAMBDA i : /\ lastBuild.inputs[i].some
                         /\ ~NonAnswer(Strip(lastBuild.inputs[i].text)))

C25_WitnessBot ==
    /\ lastBuild.by = "bot" /\ lastBuild.ran
    /\ Len(Surviving) = 1 /\ Len(faqFile.topics) = 1

\* the globals, and every file a rebuild writes
Caches == <<ABOUT_TEXT, ACTIVE_FAQ_TOPICS, FAQ_CACHE>>
Persisted == <<aboutFile, faqFile, indexFile, embFile, chunksFile, metaFile>>

C30_WitnessDenied ==
    /\ handled.op = "reindex" /\ handled.status = "denied"
    /\ handled.from_user = "stranger"
    /\ ACTIVE_FAQ_TOPICS # <<>>

DenyListed(url) ==
    \E bad \in BAD_HOSTS \cup BAD_URL_PARTS : Contains(bad, LowerUrl(url))

\* C20: whichever copy of the tools ran, no URL of a web_search result is
\* deny-listed, and web_fetch returns no page text when the requested URL or
\* the final URL after redirects is deny-listed.
C20_DenyListEnforced ==
    /\ toolCall.op = "web_search" =>
          \A i \in 1..Len(toolRet.results) : ~DenyListed(toolRet.results[i].url)
    /\ toolCall.op = "web_fetch"
          /\ (DenyListed(toolCall.url) \/ DenyListed(toolCall.final)) =>
          toolRet.text = <<>>


(***************************************************************************)
(* The chunk ids of an index (checked under SpecRag)                       *)
(***************************************************************************)
\* C29: whatever list of sources ingest was called with (several files,
\* several pages, files of the same name in different directories), no two
\* chunk records of the index on disk have the same id.
C29_ChunkIdsUnique ==
    chunksFile.exists =>
        \A i, j \in 1..Len(chunksFile.data) :
            chunksFile.data[i].id = chunksFile.data[j].id => i = j

(***************************************************************************)
(* The company extraction inside answer_via_assistant (SpecAssistant)      *)
(***************************************************************************)
\* C28: whatever extract_current_company_from_local_index runs into (the
\* retrieval raises, the index is empty or small, the hits have another
\* shape, the completion names no company), answer_via_assistant goes on to
\* poll the run it created: the step after the extraction is the polling
\* loop, never the return of None.
C28_ExtractionNeverCostsAnswer ==
    [][pc = "company" => pc' = "poll"]_vars

(***************************************************************************)
(* Properties of the free-text handlers (checked under FairSpecText)       *)
(***************************************************************************)
\* the messages that close a relevant question
Closing == {"answer", "sources", "contact"}

\* at most one message; the assistant's text is sent only when present and not
\* classified a non-answer, the fallback only otherwise, the contact message
\* only when the search gave no admissible link
FallbackOrder ==
    /\ Len(sent) <= 1
    /\ \A i \in 1..Len(sent) :
         /\ sent[i].kind = "answer" =>
              /\ result.some /\ sent[i].text = result.text
              /\ ~is_empty_message(asked.copy, result.text)
         /\ sent[i].kind \in {"sources", "contact"} =>
              ~result.some \/ is_empty_message(asked.copy, result.text)
         /\ sent[i].kind = "sources" =>
              /\ sent[i].links # <<>>
              /\ \A j \in 1..Len(sent[i].links) :
                   ~Skipped(asked.copy, sent[i].links[j])
         /\ sent[i].kind = "contact" => asked.links = <<>>

\* C22: every relevant question gets exactly one reply, in the fixed order
\* assistant answer, then web search, then the contact message; a non-answer
\* of the assistant is never sent as the answer.
C22_OneReplyInOrder ==
    /\ []FallbackOrder
    /\ (asked.pc = "assistant") ~> (Len(sent) = 1 /\ sent[1].kind \in Closing)


(***************************************************************************)
(* Properties of the query of a web_search call (checked under SpecTools)  *)
(***************************************************************************)
\* the three conditions: a trigger word in the query, a company extracted,
\* and its name not in the query whatever the case of the letters
MustInject ==
    /\ \E s \in HeadcountTriggers : Contains(s, LowerText(toolCall.query.text))
    /\ toolCall.company.some
    /\ ~Contains(LowerText(toolCall.company.text), LowerText(toolCall.query.text))

\* the search ran with another query, one that holds the company
Injected ==
    /\ toolRet.searched # toolCall.query.text
    /\ toolCall.company.some
    /\ Contains(toolCall.company.text, toolRet.searched)

\* C26: the query of a web_search call is replaced by one that holds the
\* company if and only if the three conditions hold; in every other case the
\* search runs with the query exactly as the assistant gave it.
C26_QueryInjection ==
    toolCall.op = "web_search" =>
       IF MustInject THEN Injected
       ELSE toolRet.searched = toolCall.query.text

\* C26, amended: as above, but in bot.py and webhook.py the query that is not
\* replaced is the assistant's query without the whitespace around it.
C26_QueryInjectionStripped ==
    toolCall.op = "web_search" =>
       IF MustInject THEN Injected
       ELSE toolRet.searched = IF toolCall.copy = "runner"
                               THEN toolCall.query.text
                               ELSE Strip(toolCall.query.text)

\* bot.py searched for the company in place of a headcount question that did
\* not name it
C26_Witness ==
    /\ toolCall.op = "web_search" /\ toolCall.copy = "bot"
    /\ MustInject
    /\ toolRet.searched = Acme \o HeadcountTail

(***************************************************************************)
(* Properties of concurrent text messages (checked under SpecSessions)     *)
(***************************************************************************)
\* the globals, the index files and the cache files
SharedState ==
    <<ABOUT_TEXT, ACTIVE_FAQ_TOPICS, FAQ_CACHE, embFile, chunksFile, metaFile,
      indexFile, aboutFile, faqFile>>

\* a chat whose handler has finished got the message it would have got had
\* its handler run alone
SameAsAlone ==
    \A s \in Chats :
        sessions[s].pc = "done" =>
            sessions[s].reply =
                HandledAlone(server, sessions[s].text, sessions[s].relevant,
                             sessions[s].result, sessions[s].found)

\* C27: no step of the handling of a text message (relevance check, assistant,
\* web fallback) changes ABOUT_TEXT, ACTIVE_FAQ_TOPICS, FAQ_CACHE, the index
\* files or the cache files, and two messages handled with their steps
\* interleaved get the replies they get when handled one after the other.
C27_ServingWritesNothing ==
    /\ [][UNCHANGED SharedState]_vars
    /\ []SameAsAlone

\* both chats are done after their handlers ran interleaved: one got the
\* assistant's answer, the other the sources of the fallback, and the FAQ
\* cache holds its topic
C27_Witness ==
    /\ sessions["chat1"].pc = "done" /\ sessions["chat1"].reply.kind = "answer"
    /\ sessions["chat2"].pc = "done" /\ sessions["chat2"].reply.kind = "sources"
    /\ DOMAIN FAQ_CACHE # {}


====
